---- MODULE Spec2Model ----
(***************************************************************************)
(* A model of the email-format crate (RFC 5322 parser and serializer).     *)
(* Bytes are naturals 0..255, byte strings are sequences of bytes.  Every  *)
(* Parsable::parse is an operator from an input byte string to a result    *)
(* record (Ok(value, remainder) or Err(error)), every Streamable::stream   *)
(* an operator from a value to the writes it makes and the count it        *)
(* returns.  The state machine assembles an input from fragments, applies  *)
(* one parse or conversion of the crate to it and streams the value.       *)
(***************************************************************************)
EXTENDS Integers, Sequences, FiniteSets, TLC

VARIABLES
  input,   \* the byte string handed to the operation
  fed,     \* the names of the fragments input was assembled from, in order
  pc,      \* "feed" while the input is assembled, then "parsed", then "streamed";
           \* "streaming" and "failed" on a sink that may fail; "email" once
           \* Email::new has returned an Email
  op,      \* the operation applied: [f |-> "parse", "try_from", "new", "set" or
           \* "clear", t |-> its type]
  res,     \* the Result the operation returned
  cursor,  \* the caller's rem after parse!(T, rem), rem being the input before it
  out,     \* the writes of stream on the value of res
  email,   \* the Email the caller holds: <<>> before Email::new, then <<the email>>
  ncalls   \* the number of set and clear calls made on the email

vars == <<input, fed, pc, op, res, cursor, out, email, ncalls>>

(***************************************************************************)
(* Byte-string helpers (Rust slice operations).                            *)
(***************************************************************************)
\* &s[..n]
Take(s, n) == SubSeq(s, 1, n)

\* &s[n..]
Drop(s, n) == SubSeq(s, n + 1, Len(s))

\* r is s with some prefix removed
IsSuffix(r, s) == Len(r) <= Len(s) /\ r = Drop(s, Len(s) - Len(r))

\* u8::to_ascii_lowercase
LowerByte(c) == IF c >= 65 /\ c <= 90 THEN c + 32 ELSE c

\* [u8]::to_ascii_lowercase
Lower(s) == [i \in 1..Len(s) |-> LowerByte(s[i])]

(***************************************************************************)
(* ParseError and the Result of Parsable::parse.                           *)
(***************************************************************************)
NoErr == [kind |-> "None", name |-> "", num |-> 0, inner |-> <<>>]

\* an error variant carrying (at most) a production name
E(kind, name) == [kind |-> kind, name |-> name, num |-> 0, inner |-> <<>>]

\* InvalidBodyChar(u8), LineTooLong(usize), TrailingInput(name, usize)
ENum(kind, name, n) == [kind |-> kind, name |-> name, num |-> n, inner |-> <<>>]

\* ParseError::Parse(name, Box<inner>)
EParse(name, e) == [kind |-> "Parse", name |-> name, num |-> 0, inner |-> <<e>>]

Ok(v, r) == [ok |-> TRUE, val |-> v, rem |-> r, err |-> NoErr]

Err(e) == [ok |-> FALSE, val |-> <<>>, rem |-> <<>>, err |-> e]

\* a parse! that moved the cursor whatever the result
After_moved(r, cur) == r.rem

\* the cursor after parse!(P, rem): it moves only when P succeeded
After(r, cur) == IF r.ok THEN r.rem ELSE cur

\* Result::ok(): Some(value) is <<value>>, None is <<>>
Opt(r) == IF r.ok THEN <<r.val>> ELSE <<>>

\* req!(rem, bytes, input)
Req(cur, bytes) ==
  IF Len(cur) < Len(bytes) THEN Err(E("Eof", ""))
  ELSE IF Take(cur, Len(bytes)) # bytes THEN Err(E("Expected", ""))
  ELSE Ok(<<>>, Drop(cur, Len(bytes)))

(***************************************************************************)
(* Character classes (def_cclass!).                                        *)
(***************************************************************************)
is_vchar(c) == c >= 33 /\ c <= 126

is_wsp(c) == c = 32 \/ c = 9

is_ascii(c) == c >= 1 /\ c <= 127

is_digit(c) == c >= 48 /\ c <= 57

is_alpha(c) == (c >= 65 /\ c <= 90) \/ (c >= 97 /\ c <= 122)

is_ctext(c) == (c >= 33 /\ c <= 39) \/ (c >= 42 /\ c <= 91) \/ (c >= 93 /\ c <= 126)

is_atext(c) ==
  \/ is_alpha(c) \/ is_digit(c)
  \/ c \in {33, 35, 36, 37, 38, 39, 42, 43, 45, 47, 61, 63, 94, 95, 96, 123, 124, 125, 126}

is_qtext(c) == c = 33 \/ (c >= 35 /\ c <= 91) \/ (c >= 93 /\ c <= 126)

is_dtext(c) == (c >= 33 /\ c <= 90) \/ (c >= 94 /\ c <= 126)

is_ftext(c) == (c >= 33 /\ c <= 57) \/ (c >= 59 /\ c <= 126)

is_text(c) == (c >= 1 /\ c <= 9) \/ c = 11 \/ c = 12 \/ (c >= 14 /\ c <= 127)

\* the types defined by def_cclass!
CClasses ==
  {"VChar", "WSP", "ASCII", "Digit", "Alpha", "CText", "AText", "QText", "DText", "FText",
   "Text"}

\* the $test of each def_cclass! type
Test(T, c) ==
  CASE T = "VChar" -> is_vchar(c)
    [] T = "WSP" -> is_wsp(c)
    [] T = "ASCII" -> is_ascii(c)
    [] T = "Digit" -> is_digit(c)
    [] T = "Alpha" -> is_alpha(c)
    [] T = "CText" -> is_ctext(c)
    [] T = "AText" -> is_atext(c)
    [] T = "QText" -> is_qtext(c)
    [] T = "DText" -> is_dtext(c)
    [] T = "FText" -> is_ftext(c)
    [] T = "Text" -> is_text(c)

\* the value of pos when `while pos < input.len() && $test(input[pos])` exits
Scan(T, s) ==
  CHOOSE n \in 0..Len(s) :
    /\ (n = Len(s) \/ ~Test(T, s[n + 1]))
    /\ \A i \in 1..n : Test(T, s[i])

\* a def_cclass! parse that stops after the first byte
CClassParse_first(T, s) ==
  IF Len(s) = 0 THEN Err(E("Eof", ""))
  ELSE IF Test(T, s[1]) THEN Ok(Take(s, 1), Drop(s, 1))
  ELSE Err(E("NotFound", ""))

\* def_cclass!: $typ::parse
CClassParse(T, s) ==
  LET pos == Scan(T, s) IN
  IF pos > 0 THEN Ok(Take(s, pos), Drop(s, pos))
  ELSE IF pos >= Len(s) THEN Err(E("Eof", ""))
  ELSE Err(E("NotFound", ""))

(***************************************************************************)
(* rfc5322/types.rs: parsing.                                              *)
(***************************************************************************)
\* parse!(T, rem) calls <T as Parsable>::parse(rem), and x.stream(w) calls
\* <T as Streamable>::stream(&x, w): both are resolved by the type
RECURSIVE Parsable_parse(_, _)

RECURSIVE Streamable_stream(_, _)

CRLF == <<13, 10>>

\* 3.2.1 quoted-pair
QuotedPair_parse(s) ==
  IF Len(s) = 0 THEN Err(E("Eof", "Quoted Pair"))
  ELSE IF 1 >= Len(s) THEN Err(E("NotFound", "Quoted Pair"))
  ELSE IF s[1] # 92 THEN Err(E("NotFound", "Quoted Pair"))
  ELSE IF is_vchar(s[2]) \/ is_wsp(s[2]) THEN Ok(s[2], Drop(s, 2))
  ELSE Err(E("NotFound", "Quoted Pair"))

\* 3.2.2 FWS
FWS_parse(s) ==
  LET RECURSIVE loop(_)
      loop(r) ==
        IF Len(r) > 0
        THEN IF is_wsp(r[1]) THEN loop(Drop(r, 1))
             ELSE IF Len(r) > 2 /\ Take(r, 2) = CRLF /\ is_wsp(r[3]) THEN loop(Drop(r, 3))
             ELSE r
        ELSE r
      r1 == loop(s)
  IN IF Len(s) = 0 THEN Err(E("Eof", "Folding White Space"))
     ELSE IF Len(r1) = Len(s) THEN Err(E("NotFound", "Folding White Space"))
     ELSE Ok("FWS", r1)


\* CContent::parse that answers the empty input with an empty ctext
CContent_parse_empty(s) ==
  IF Len(s) = 0 THEN Ok([tag |-> "CText", v |-> <<>>], s)
  ELSE LET a == Parsable_parse("CText", s) IN
       IF a.ok THEN Ok([tag |-> "CText", v |-> a.val], a.rem)
       ELSE Err(E("NotFound", "CContent"))

\* 3.2.2 ccontent = ctext / quoted-pair / comment
CContent_parse(s) ==
  LET a == Parsable_parse("CText", s) IN
  IF a.ok THEN Ok([tag |-> "CText", v |-> a.val], a.rem)
  ELSE LET b == Parsable_parse("QuotedPair", s) IN
       IF b.ok THEN Ok([tag |-> "QuotedPair", v |-> b.val], b.rem)
       ELSE LET c == Parsable_parse("Comment", s) IN
            IF c.ok THEN Ok([tag |-> "Comment", v |-> c.val], c.rem)
            ELSE Err(E("NotFound", "CContent"))

\* 3.2.2 comment = "(" *([FWS] ccontent) [FWS] ")"
Comment_parse(s) ==
  LET RECURSIVE loop(_, _, _)
      loop(r, items, ws) ==
        IF Len(r) > 0
        THEN LET t == Parsable_parse("FWS", r)
                 r1 == After(t, r)
                 cc == Parsable_parse("CContent", r1)
             IN IF cc.ok THEN loop(cc.rem, Append(items, <<t.ok, cc.val>>), t.ok)
                ELSE [cur |-> r1, items |-> items, ws |-> t.ok]
        ELSE [cur |-> r, items |-> items, ws |-> ws]
      open == Req(s, <<40>>)
  IN IF Len(s) = 0 THEN Err(E("Eof", "Comment"))
     ELSE IF ~open.ok THEN open
     ELSE LET l == loop(open.rem, <<>>, FALSE)
              close == Req(l.cur, <<41>>)
          IN IF ~close.ok THEN close
             ELSE Ok([ccontent |-> l.items, trailing_ws |-> l.ws], close.rem)

\* 3.2.2 CFWS = (1*([FWS] comment) [FWS]) / FWS
CFWS_parse(s) ==
  LET RECURSIVE loop(_, _, _)
      loop(r, items, ws) ==
        IF Len(r) > 0
        THEN LET w == Parsable_parse("FWS", r)
                 r1 == After(w, r)
                 c == Parsable_parse("Comment", r1)
             IN IF c.ok THEN loop(c.rem, Append(items, <<w.ok, c.val>>), w.ok)
                ELSE [cur |-> r1, items |-> items, ws |-> w.ok]
        ELSE [cur |-> r, items |-> items, ws |-> ws]
      l == loop(s, <<>>, FALSE)
  IN IF Len(s) = 0 THEN Err(E("Eof", "Comment Folding White Space"))
     ELSE IF Len(l.items) > 0 \/ l.ws
          THEN Ok([comments |-> l.items, trailing_ws |-> l.ws], l.cur)
          ELSE Err(E("NotFound", "Comment Folding White Space"))

\* 3.2.3 atom = [CFWS] 1*atext [CFWS]
Atom_parse(s) ==
  LET pre == Parsable_parse("CFWS", s)
      at == Parsable_parse("AText", After(pre, s))
  IN IF Len(s) = 0 THEN Err(E("Eof", "Atom"))
     ELSE IF at.ok
          THEN LET post == Parsable_parse("CFWS", at.rem)
               IN Ok([pre_cfws |-> Opt(pre), atext |-> at.val, post_cfws |-> Opt(post)],
                     After(post, at.rem))
          ELSE Err(E("NotFound", "Atom"))

\* 3.2.3 dot-atom-text = 1*atext *("." 1*atext)
DotAtomText_parse(s) ==
  LET RECURSIVE loop(_, _)
      loop(r, parts) ==
        IF Len(r) > 0
        THEN IF r[1] # 46 THEN [cur |-> r, parts |-> parts]
             ELSE LET p == Parsable_parse("AText", Drop(r, 1))
                  IN IF p.ok THEN loop(p.rem, Append(parts, p.val))
                     ELSE [cur |-> r, parts |-> parts]
        ELSE [cur |-> r, parts |-> parts]
      first == Parsable_parse("AText", s)
  IN IF ~first.ok THEN first
     ELSE LET l == loop(first.rem, <<first.val>>) IN Ok(l.parts, l.cur)

\* 3.2.3 dot-atom = [CFWS] dot-atom-text [CFWS]
DotAtom_parse(s) ==
  LET pre == Parsable_parse("CFWS", s)
      dat == Parsable_parse("DotAtomText", After(pre, s))
  IN IF Len(s) = 0 THEN Err(E("Eof", "DotAtom"))
     ELSE IF dat.ok
          THEN LET post == Parsable_parse("CFWS", dat.rem)
               IN Ok([pre_cfws |-> Opt(pre), dot_atom_text |-> dat.val,
                      post_cfws |-> Opt(post)], After(post, dat.rem))
          ELSE Err(E("NotFound", "DotAtom"))

\* 3.2.4 qcontent = qtext / quoted-pair
QContent_parse(s) ==
  LET a == Parsable_parse("QText", s) IN
  IF Len(s) = 0 THEN Err(E("Eof", "QContent"))
  ELSE IF a.ok THEN Ok([tag |-> "QText", v |-> a.val], a.rem)
  ELSE LET b == Parsable_parse("QuotedPair", s) IN
       IF b.ok THEN Ok([tag |-> "QuotedPair", v |-> b.val], b.rem)
       ELSE Err(E("NotFound", "QContent"))

\* 3.2.4 quoted-string = [CFWS] DQUOTE *([FWS] qcontent) [FWS] DQUOTE [CFWS]
QuotedString_parse(s) ==
  LET RECURSIVE loop(_, _, _)
      loop(r, items, ws) ==
        IF Len(r) > 0
        THEN LET t == Parsable_parse("FWS", r)
                 r1 == After(t, r)
                 qc == Parsable_parse("QContent", r1)
             IN IF qc.ok THEN loop(qc.rem, Append(items, <<t.ok, qc.val>>), t.ok)
                ELSE [cur |-> r1, items |-> items, ws |-> t.ok]
        ELSE [cur |-> r, items |-> items, ws |-> ws]
      pre == Parsable_parse("CFWS", s)
      open == Req(After(pre, s), <<34>>)
  IN IF Len(s) = 0 THEN Err(E("Eof", "QuotedString"))
     ELSE IF ~open.ok THEN open
     ELSE LET l == loop(open.rem, <<>>, FALSE)
              close == Req(l.cur, <<34>>)
          IN IF ~close.ok THEN close
             ELSE LET post == Parsable_parse("CFWS", close.rem)
                  IN Ok([pre_cfws |-> Opt(pre), qcontent |-> l.items,
                         trailing_ws |-> l.ws, post_cfws |-> Opt(post)],
                        After(post, close.rem))

\* 3.2.5 word = atom / quoted-string
Word_parse(s) ==
  LET a == Parsable_parse("Atom", s) IN
  IF Len(s) = 0 THEN Err(E("Eof", "Word"))
  ELSE IF a.ok THEN Ok([tag |-> "Atom", v |-> a.val], a.rem)
  ELSE LET q == Parsable_parse("QuotedString", s) IN
       IF q.ok THEN Ok([tag |-> "QuotedString", v |-> q.val], q.rem)
       ELSE Err(E("NotFound", "Word"))

\* 3.2.5 phrase = 1*word; DisplayName::parse is Phrase::parse under a new type
Phrase_parse(s) ==
  LET RECURSIVE loop(_, _)
      loop(r, words) ==
        LET w == Parsable_parse("Word", r) IN
        IF w.ok THEN loop(w.rem, Append(words, w.val))
        ELSE [cur |-> r, words |-> words]
      l == loop(s, <<>>)
  IN IF Len(s) = 0 THEN Err(E("Eof", "Phrase"))
     ELSE IF Len(l.words) = 0 THEN Err(E("NotFound", "Phrase"))
     ELSE Ok(l.words, l.cur)

\* Unstructured::parse with parse!(FWS, rem) in place of the final parse!(WSP, rem)
Unstructured_parse_fws(s) ==
  LET RECURSIVE loop(_, _)
      loop(r, parts) ==
        IF Len(r) > 0
        THEN LET f == Parsable_parse("FWS", r)
                 r2 == After(f, r)
                 vc == Parsable_parse("VChar", r2)
             IN IF vc.ok THEN loop(vc.rem, Append(parts, vc.val))
                ELSE [cur |-> r, parts |-> parts]
        ELSE [cur |-> r, parts |-> parts]
      t == Parsable_parse("FWS", s)
      l == loop(After(t, s), <<>>)
  IN IF Len(s) = 0 THEN Err(E("Eof", "Unstructured"))
     ELSE IF Len(l.parts) = 0 THEN Err(E("NotFound", "Unstructured"))
     ELSE LET w == Parsable_parse("FWS", l.cur)
          IN Ok([leading_ws |-> t.ok, parts |-> l.parts, trailing_ws |-> w.ok],
                After(w, l.cur))

\* 3.2.5 unstructured = *([FWS] VCHAR) *WSP
Unstructured_parse(s) ==
  LET RECURSIVE loop(_, _)
      loop(r, parts) ==
        IF Len(r) > 0
        THEN LET f == Parsable_parse("FWS", r)
                 r2 == After(f, r)
                 vc == Parsable_parse("VChar", r2)
             IN IF vc.ok THEN loop(vc.rem, Append(parts, vc.val))
                ELSE [cur |-> r, parts |-> parts]
        ELSE [cur |-> r, parts |-> parts]
      t == Parsable_parse("FWS", s)
      l == loop(After(t, s), <<>>)
  IN IF Len(s) = 0 THEN Err(E("Eof", "Unstructured"))
     ELSE IF Len(l.parts) = 0 THEN Err(E("NotFound", "Unstructured"))
     ELSE LET w == Parsable_parse("WSP", l.cur)
          IN Ok([leading_ws |-> t.ok, parts |-> l.parts, trailing_ws |-> w.ok],
                After(w, l.cur))

\* 3.4.1 local-part = dot-atom / quoted-string
LocalPart_parse(s) ==
  LET a == Parsable_parse("DotAtom", s) IN
  IF Len(s) = 0 THEN Err(E("Eof", "LocalPart"))
  ELSE IF a.ok THEN Ok([tag |-> "DotAtom", v |-> a.val], a.rem)
  ELSE LET q == Parsable_parse("QuotedString", s) IN
       IF q.ok THEN Ok([tag |-> "QuotedString", v |-> q.val], q.rem)
       ELSE Err(E("NotFound", "LocalPart"))

\* 3.4.1 domain-literal = [CFWS] "[" *([FWS] dtext) [FWS] "]" [CFWS]
DomainLiteral_parse(s) ==
  LET RECURSIVE loop(_, _, _)
      loop(r, items, ws) ==
        IF Len(r) > 0
        THEN LET t == Parsable_parse("FWS", r)
                 r1 == After(t, r)
                 d == Parsable_parse("DText", r1)
             IN IF d.ok THEN loop(d.rem, Append(items, <<t.ok, d.val>>), t.ok)
                ELSE [cur |-> r1, items |-> items, ws |-> t.ok]
        ELSE [cur |-> r, items |-> items, ws |-> ws]
      pre == Parsable_parse("CFWS", s)
      open == Req(After(pre, s), <<91>>)
  IN IF Len(s) = 0 THEN Err(E("Eof", "DomainLiteral"))
     ELSE IF ~open.ok THEN open
     ELSE LET l == loop(open.rem, <<>>, FALSE)
              close == Req(l.cur, <<93>>)
          IN IF ~close.ok THEN close
             ELSE LET post == Parsable_parse("CFWS", close.rem)
                  IN Ok([pre_cfws |-> Opt(pre), dtext |-> l.items,
                         trailing_ws |-> l.ws, post_cfws |-> Opt(post)],
                        After(post, close.rem))

\* 3.4.1 domain = dot-atom / domain-literal
Domain_parse(s) ==
  LET a == Parsable_parse("DotAtom", s) IN
  IF Len(s) = 0 THEN Err(E("Eof", "Domain"))
  ELSE IF a.ok THEN Ok([tag |-> "DotAtom", v |-> a.val], a.rem)
  ELSE LET d == Parsable_parse("DomainLiteral", s) IN
       IF d.ok THEN Ok([tag |-> "DomainLiteral", v |-> d.val], d.rem)
       ELSE Err(E("NotFound", "Domain"))

\* 3.4.1 addr-spec = local-part "@" domain
AddrSpec_parse(s) ==
  LET lp == Parsable_parse("LocalPart", s) IN
  IF Len(s) = 0 THEN Err(E("Eof", "AddrSpec"))
  ELSE IF lp.ok /\ Len(lp.rem) > 0 /\ lp.rem[1] = 64
       THEN LET d == Parsable_parse("Domain", Drop(lp.rem, 1))
            IN IF d.ok THEN Ok([local_part |-> lp.val, domain |-> d.val], d.rem)
               ELSE Err(E("NotFound", "AddrSpec"))
       ELSE Err(E("NotFound", "AddrSpec"))

\* 3.4 angle-addr = [CFWS] "<" addr-spec ">" [CFWS]
AngleAddr_parse(s) ==
  LET pre == Parsable_parse("CFWS", s)
      open == Req(After(pre, s), <<60>>)
  IN IF Len(s) = 0 THEN Err(E("Eof", "AngleAddr"))
     ELSE IF ~open.ok THEN open
     ELSE LET aspec == Parsable_parse("AddrSpec", open.rem)
          IN IF aspec.ok
             THEN LET close == Req(aspec.rem, <<62>>)
                  IN IF ~close.ok THEN close
                     ELSE LET post == Parsable_parse("CFWS", close.rem)
                          IN Ok([pre_cfws |-> Opt(pre), addr_spec |-> aspec.val,
                                 post_cfws |-> Opt(post)], After(post, close.rem))
             ELSE Err(E("NotFound", "AngleAddr"))

\* 3.4 name-addr = [display-name] angle-addr
NameAddr_parse(s) ==
  LET dn == Parsable_parse("Phrase", s)
      aa == Parsable_parse("AngleAddr", After(dn, s))
  IN IF Len(s) = 0 THEN Err(E("Eof", "NameAddr"))
     ELSE IF aa.ok THEN Ok([display_name |-> Opt(dn), angle_addr |-> aa.val], aa.rem)
     ELSE Err(E("NotFound", "NameAddr"))

\* 3.4 mailbox = name-addr / addr-spec
Mailbox_parse(s) ==
  LET a == Parsable_parse("NameAddr", s) IN
  IF Len(s) = 0 THEN Err(E("Eof", "Mailbox"))
  ELSE IF a.ok THEN Ok([tag |-> "NameAddr", v |-> a.val], a.rem)
  ELSE LET b == Parsable_parse("AddrSpec", s) IN
       IF b.ok THEN Ok([tag |-> "AddrSpec", v |-> b.val], b.rem)
       ELSE Err(E("NotFound", "Mailbox"))

\* the loop without savedrem: the cursor returned is the one the loop ended with
CommaList_unsaved(T, s) ==
  LET RECURSIVE loop(_, _)
      loop(r, items) ==
        LET m == Parsable_parse(T, r) IN
        IF m.ok
        THEN IF Len(m.rem) = 0 \/ m.rem[1] # 44
             THEN [saved |-> m.rem, items |-> Append(items, m.val)]
             ELSE loop(Drop(m.rem, 1), Append(items, m.val))
        ELSE [saved |-> r, items |-> items]
  IN loop(s, <<>>)

\* the loop shared by MailboxList::parse and AddressList::parse:
\* element, then "," element while one parses; the cursor returned is the one
\* saved after the last element
CommaList(T, s) ==
  LET RECURSIVE loop(_, _, _)
      loop(r, saved, items) ==
        LET m == Parsable_parse(T, r) IN
        IF m.ok
        THEN IF Len(m.rem) = 0 \/ m.rem[1] # 44
             THEN [saved |-> m.rem, items |-> Append(items, m.val)]
             ELSE loop(Drop(m.rem, 1), m.rem, Append(items, m.val))
        ELSE [saved |-> saved, items |-> items]
  IN loop(s, s, <<>>)

\* 3.4 mailbox-list = (mailbox *("," mailbox))
MailboxList_parse(s) ==
  LET l == CommaList("Mailbox", s) IN
  IF Len(s) = 0 THEN Err(E("Eof", "Mailbox List"))
  ELSE IF Len(l.items) = 0 THEN Err(E("NotFound", "MailboxList"))
  ELSE Ok(l.items, l.saved)

\* 3.4 group-list = mailbox-list / CFWS
GroupList_parse(s) ==
  LET a == Parsable_parse("MailboxList", s) IN
  IF Len(s) = 0 THEN Err(E("Eof", "Group List"))
  ELSE IF a.ok THEN Ok([tag |-> "MailboxList", v |-> a.val], a.rem)
  ELSE LET b == Parsable_parse("CFWS", s) IN
       IF b.ok THEN Ok([tag |-> "CFWS", v |-> b.val], b.rem)
       ELSE Err(E("NotFound", "GroupList"))

\* 3.4 group = display-name ":" [group-list] ";" [CFWS]
Group_parse(s) ==
  LET dn == Parsable_parse("Phrase", s) IN
  IF Len(s) = 0 THEN Err(E("Eof", "Group"))
  ELSE IF dn.ok
       THEN LET colon == Req(dn.rem, <<58>>)
            IN IF ~colon.ok THEN colon
               ELSE LET gl == Parsable_parse("GroupList", colon.rem)
                        semi == Req(After(gl, colon.rem), <<59>>)
                    IN IF ~semi.ok THEN semi
                       ELSE LET cfws == Parsable_parse("CFWS", semi.rem)
                            IN Ok([display_name |-> dn.val, group_list |-> Opt(gl),
                                   cfws |-> Opt(cfws)], After(cfws, semi.rem))
       ELSE Err(E("NotFound", "Group"))

\* 3.4 address = mailbox / group
Address_parse(s) ==
  LET a == Parsable_parse("Mailbox", s) IN
  IF Len(s) = 0 THEN Err(E("Eof", "Address"))
  ELSE IF a.ok THEN Ok([tag |-> "Mailbox", v |-> a.val], a.rem)
  ELSE LET b == Parsable_parse("Group", s) IN
       IF b.ok THEN Ok([tag |-> "Group", v |-> b.val], b.rem)
       ELSE Err(E("NotFound", "Address"))

\* 3.4 address-list = (address *("," address))
AddressList_parse(s) ==
  LET l == CommaList("Address", s) IN
  IF Len(s) = 0 THEN Err(E("Eof", "Address List"))
  ELSE IF Len(l.items) = 0 THEN Err(E("NotFound", "AddressList"))
  ELSE Ok(l.items, l.saved)

\* 3.3 zone = (FWS ( "+" / "-" ) 4DIGIT); the value is the signed number HHMM
Zone_parse(s) ==
  LET fws == Parsable_parse("FWS", s)
      r == After(fws, s)
      sign == IF r[1] = 43 THEN 1 ELSE -1
  IN IF Len(s) = 0 THEN Err(E("Eof", "Zone"))
     ELSE IF ~fws.ok THEN Err(E("NotFound", "Zone"))
     ELSE IF Len(r) < 5 THEN Err(E("NotFound", "Zone"))
     ELSE IF r[1] # 43 /\ r[1] # 45 THEN Err(E("NotFound", "Zone"))
     ELSE IF ~is_digit(r[2]) \/ ~is_digit(r[3]) \/ ~is_digit(r[4]) \/ ~is_digit(r[5])
          THEN Err(E("NotFound", "Zone"))
     ELSE Ok((1000 * (r[2] - 48) + 100 * (r[3] - 48) + 10 * (r[4] - 48) + (r[5] - 48)) * sign,
             Drop(r, 5))

\* 3.3 hour / minute / second = 2DIGIT (Hour::parse, Minute::parse, Second::parse)
TwoDigit_parse(name, s) ==
  IF Len(s) = 0 THEN Err(E("Eof", name))
  ELSE IF Len(s) < 2 THEN Err(E("NotFound", name))
  ELSE IF ~is_digit(s[1]) \/ ~is_digit(s[2]) THEN Err(E("NotFound", name))
  ELSE Ok(10 * (s[1] - 48) + (s[2] - 48), Drop(s, 2))

\* 3.3 time-of-day = hour ":" minute [ ":" second ]
TimeOfDay_parse(s) ==
  LET hour == TwoDigit_parse("Hour", s) IN
  IF Len(s) = 0 THEN Err(E("Eof", "TimeOfDay"))
  ELSE IF hour.ok
       THEN LET colon == Req(hour.rem, <<58>>)
            IN IF ~colon.ok THEN colon
               ELSE LET minute == TwoDigit_parse("Minute", colon.rem)
                        saved == minute.rem
                        second == TwoDigit_parse("Second", Drop(saved, 1))
                    IN IF minute.ok
                       THEN IF Len(saved) > 0 /\ saved[1] = 58 /\ second.ok
                            THEN Ok([hour |-> hour.val, minute |-> minute.val,
                                     second |-> <<second.val>>], second.rem)
                            ELSE Ok([hour |-> hour.val, minute |-> minute.val,
                                     second |-> <<>>], saved)
                       ELSE Err(E("NotFound", "TimeOfDay"))
       ELSE Err(E("NotFound", "TimeOfDay"))

\* 3.3 time = time-of-day zone
Time_parse(s) ==
  LET tod == Parsable_parse("TimeOfDay", s)
      zone == Parsable_parse("Zone", tod.rem)
  IN IF Len(s) = 0 THEN Err(E("Eof", "Time"))
     ELSE IF tod.ok /\ zone.ok
          THEN Ok([time_of_day |-> tod.val, zone |-> zone.val], zone.rem)
          ELSE Err(E("NotFound", "Time"))

\* 3.3 year = (FWS 4*DIGIT FWS)
Year_parse(s) ==
  LET fws == Parsable_parse("FWS", s)
      r == After(fws, s)
      fws2 == Parsable_parse("FWS", Drop(r, 4))
  IN IF Len(s) = 0 THEN Err(E("Eof", "Year"))
     ELSE IF ~fws.ok THEN Err(E("NotFound", "Year"))
     ELSE IF Len(r) < 5 THEN Err(E("NotFound", "Year"))
     ELSE IF ~is_digit(r[1]) \/ ~is_digit(r[2]) \/ ~is_digit(r[3]) \/ ~is_digit(r[4])
          THEN Err(E("NotFound", "Year"))
     ELSE IF ~fws2.ok THEN Err(E("NotFound", "Year"))
     ELSE Ok(1000 * (r[1] - 48) + 100 * (r[2] - 48) + 10 * (r[3] - 48) + (r[4] - 48),
             fws2.rem)

\* "Jan" .. "Dec": the names Month::stream writes; Month::parse compares the
\* lower-cased input with their lower-case forms, in the same order
MonthText ==
  << <<74, 97, 110>>, <<70, 101, 98>>, <<77, 97, 114>>, <<65, 112, 114>>,
     <<77, 97, 121>>, <<74, 117, 110>>, <<74, 117, 108>>, <<65, 117, 103>>,
     <<83, 101, 112>>, <<79, 99, 116>>, <<78, 111, 118>>, <<68, 101, 99>> >>

\* 3.3 month
Month_parse(s) ==
  LET three == Lower(Take(s, 3))
      hits == {m \in 1..12 : Lower(MonthText[m]) = three}
  IN IF Len(s) = 0 THEN Err(E("Eof", "Month"))
     ELSE IF Len(s) < 3 THEN Err(E("NotFound", "Month"))
     ELSE IF hits # {} THEN Ok(CHOOSE m \in hits : TRUE, Drop(s, 3))
     ELSE Err(E("NotFound", "Month"))

\* 3.3 day = ([FWS] 1*2DIGIT FWS)
Day_parse(s) ==
  LET r == After(Parsable_parse("FWS", s), s)
      two == is_digit(r[2])
      v == IF two THEN 10 * (r[1] - 48) + r[2] - 48 ELSE r[1] - 48
      fws == Parsable_parse("FWS", Drop(r, IF two THEN 2 ELSE 1))
  IN IF Len(s) = 0 THEN Err(E("Eof", "Day"))
     ELSE IF Len(r) < 3 THEN Err(E("NotFound", "Day"))
     ELSE IF ~is_digit(r[1]) \/ (~is_digit(r[2]) /\ ~is_wsp(r[2]))
          THEN Err(E("NotFound", "Day"))
     ELSE IF ~fws.ok THEN Err(E("NotFound", "Day"))
     ELSE Ok(v, fws.rem)

\* 3.3 date = day month year
Date_parse(s) ==
  LET day == Parsable_parse("Day", s)
      month == Parsable_parse("Month", day.rem)
      year == Parsable_parse("Year", month.rem)
  IN IF Len(s) = 0 THEN Err(E("Eof", "Date"))
     ELSE IF day.ok /\ month.ok /\ year.ok
          THEN Ok([day |-> day.val, month |-> month.val, year |-> year.val], year.rem)
          ELSE Err(E("NotFound", "Date"))

\* "Sun" .. "Sat": the names DayName::stream writes; DayName::parse compares the
\* lower-cased input with their lower-case forms, in the same order
DayText ==
  << <<83, 117, 110>>, <<77, 111, 110>>, <<84, 117, 101>>, <<87, 101, 100>>,
     <<84, 104, 117>>, <<70, 114, 105>>, <<83, 97, 116>> >>

\* 3.3 day-name
DayName_parse(s) ==
  LET three == Lower(Take(s, 3))
      hits == {d \in 1..7 : Lower(DayText[d]) = three}
  IN IF Len(s) = 0 THEN Err(E("Eof", "DayName"))
     ELSE IF Len(s) < 3 THEN Err(E("NotFound", "DayName"))
     ELSE IF hits # {} THEN Ok(CHOOSE d \in hits : TRUE, Drop(s, 3))
     ELSE Err(E("NotFound", "DayName"))

\* 3.3 day-of-week = ([FWS] day-name)
DayOfWeek_parse(s) ==
  LET pre == Parsable_parse("FWS", s)
      dn == Parsable_parse("DayName", After(pre, s))
  IN IF Len(s) = 0 THEN Err(E("Eof", "DayOfWeek"))
     ELSE IF dn.ok THEN Ok([pre_fws |-> Opt(pre), day_name |-> dn.val], dn.rem)
     ELSE Err(E("NotFound", "DayOfWeek"))

\* DateTime::parse without the test of the comma and without rem = input: a
\* day-of-week that parsed is kept
DateTime_parse_kept(s) ==
  LET dow == Parsable_parse("DayOfWeek", s)
      comma == dow.ok /\ Len(dow.rem) # 0 /\ dow.rem[1] = 44
      r == IF comma THEN Drop(dow.rem, 1) ELSE After(dow, s)
      date == Parsable_parse("Date", r)
      time == Parsable_parse("Time", date.rem)
  IN IF Len(s) = 0 THEN Err(E("Eof", "DateTime"))
     ELSE IF date.ok /\ time.ok
          THEN LET post == Parsable_parse("CFWS", time.rem)
               IN Ok([day_of_week |-> Opt(dow),
                      date |-> date.val, time |-> time.val, post_cfws |-> Opt(post)],
                     After(post, time.rem))
          ELSE Err(E("NotFound", "DateTime"))

\* 3.3 date-time = [ day-of-week "," ] date time [CFWS]
DateTime_parse(s) ==
  LET dow == Parsable_parse("DayOfWeek", s)
      keep == dow.ok /\ Len(dow.rem) # 0 /\ dow.rem[1] = 44
      r == IF keep THEN Drop(dow.rem, 1) ELSE s
      date == Parsable_parse("Date", r)
      time == Parsable_parse("Time", date.rem)
  IN IF Len(s) = 0 THEN Err(E("Eof", "DateTime"))
     ELSE IF date.ok /\ time.ok
          THEN LET post == Parsable_parse("CFWS", time.rem)
               IN Ok([day_of_week |-> IF keep THEN <<dow.val>> ELSE <<>>,
                      date |-> date.val, time |-> time.val, post_cfws |-> Opt(post)],
                     After(post, time.rem))
          ELSE Err(E("NotFound", "DateTime"))

\* 3.6.4 no-fold-literal = "[" *dtext "]"
NoFoldLiteral_parse(s) ==
  LET open == Req(s, <<91>>) IN
  IF Len(s) = 0 THEN Err(E("Eof", "No-Fold Literal"))
  ELSE IF ~open.ok THEN open
  ELSE LET dtext == Parsable_parse("DText", open.rem)
       IN IF dtext.ok
          THEN LET close == Req(dtext.rem, <<93>>)
               IN IF ~close.ok THEN close ELSE Ok(dtext.val, close.rem)
          ELSE Err(E("NotFound", "No-Fold Literal"))

\* 3.6.4 id-right = dot-atom-text / no-fold-literal
IdRight_parse(s) ==
  LET a == Parsable_parse("DotAtomText", s) IN
  IF Len(s) = 0 THEN Err(E("Eof", "Id-right"))
  ELSE IF a.ok THEN Ok([tag |-> "DotAtomText", v |-> a.val], a.rem)
  ELSE LET b == Parsable_parse("NoFoldLiteral", s) IN
       IF b.ok THEN Ok([tag |-> "NoFoldLiteral", v |-> b.val], b.rem)
       ELSE Err(E("NotFound", "Id-right"))

\* 3.6.4 id-left = dot-atom-text
IdLeft_parse(s) ==
  LET dat == Parsable_parse("DotAtomText", s) IN
  IF Len(s) = 0 THEN Err(E("Eof", "Id-left"))
  ELSE IF dat.ok THEN dat
  ELSE Err(E("NotFound", "Id-left"))

\* 3.6.4 msg-id = [CFWS] "<" id-left "@" id-right ">" [CFWS]
MsgId_parse(s) ==
  LET pre == Parsable_parse("CFWS", s)
      open == Req(After(pre, s), <<60>>)
      idl == Parsable_parse("IdLeft", open.rem)
      at == Req(idl.rem, <<64>>)
      idr == Parsable_parse("IdRight", at.rem)
      close == Req(idr.rem, <<62>>)
      post == Parsable_parse("CFWS", close.rem)
  IN IF Len(s) = 0 THEN Err(E("Eof", "MsgId"))
     ELSE IF ~open.ok THEN open
     ELSE IF ~idl.ok THEN idl
     ELSE IF ~at.ok THEN at
     ELSE IF ~idr.ok THEN idr
     ELSE IF ~close.ok THEN close
     ELSE Ok([pre_cfws |-> Opt(pre), id_left |-> idl.val, id_right |-> idr.val,
              post_cfws |-> Opt(post)], After(post, close.rem))

\* 3.6.7 received-token = word / angle-addr / addr-spec / domain
ReceivedToken_parse(s) ==
  LET a == Parsable_parse("Word", s) IN
  IF Len(s) = 0 THEN Err(E("Eof", "Received Token"))
  ELSE IF a.ok THEN Ok([tag |-> "Word", v |-> a.val], a.rem)
  ELSE LET b == Parsable_parse("AngleAddr", s) IN
       IF b.ok THEN Ok([tag |-> "AngleAddr", v |-> b.val], b.rem)
       ELSE LET c == Parsable_parse("AddrSpec", s) IN
            IF c.ok THEN Ok([tag |-> "AddrSpec", v |-> c.val], c.rem)
            ELSE LET d == Parsable_parse("Domain", s) IN
                 IF d.ok THEN Ok([tag |-> "Domain", v |-> d.val], d.rem)
                 ELSE Err(E("NotFound", "Received Token"))

\* 3.6.7 path = angle-addr / ([CFWS] "<" [CFWS] ">" [CFWS])
Path_parse(s) ==
  LET aa == Parsable_parse("AngleAddr", s)
      c1 == Parsable_parse("CFWS", s)
      open == Req(After(c1, s), <<60>>)
      c2 == Parsable_parse("CFWS", open.rem)
      close == Req(After(c2, open.rem), <<62>>)
      c3 == Parsable_parse("CFWS", close.rem)
  IN IF aa.ok THEN Ok([tag |-> "AngleAddr", v |-> aa.val], aa.rem)
     ELSE IF ~open.ok THEN open
     ELSE IF ~close.ok THEN close
     ELSE Ok([tag |-> "Other", v |-> <<Opt(c1), Opt(c2), Opt(c3)>>], After(c3, close.rem))

\* 3.6.8 field-name = 1*ftext
FieldName_parse(s) ==
  LET ftext == Parsable_parse("FText", s) IN
  IF ftext.ok THEN ftext ELSE Err(E("NotFound", "Field Name"))

(***************************************************************************)
(* Streamable::stream.  The value of a stream operator is the sequence of  *)
(* writes the call makes on the sink, in order; each write records the     *)
(* bytes handed to the sink and the number the code adds to the count it   *)
(* returns for them.  A write with fail = TRUE is an Err(IoError) the      *)
(* code returns without writing.                                           *)
(***************************************************************************)
\* count += w.write(b)?  (the sink accepts the whole buffer)
W(b) == <<[bytes |-> b, ret |-> Len(b), fail |-> FALSE]>>

\* write!(w, ...)?; Ok(n): the formatted bytes b are written, n is returned
Fmt(b, n) == <<[bytes |-> b, ret |-> n, fail |-> FALSE]>>

\* Err(IoError::new(InvalidData, ...))
IoFail == <<[bytes |-> <<>>, ret |-> 0, fail |-> TRUE]>>

\* the writes that reach the sink: all those before the first failure
Effective(ws) ==
  LET bad == {i \in 1..Len(ws) : ws[i].fail}
  IN IF bad = {} THEN ws ELSE Take(ws, (CHOOSE i \in bad : \A j \in bad : i <= j) - 1)

\* the bytes the sink holds after the call
Written(ws) ==
  LET RECURSIVE cat(_)
      cat(e) == IF Len(e) = 0 THEN <<>> ELSE e[1].bytes \o cat(Tail(e))
  IN cat(Effective(ws))

\* the Result<usize, IoError> of the call: Ok(count) is <<count>>, Err is <<>>
Returned(ws) ==
  LET RECURSIVE sum(_)
      sum(e) == IF Len(e) = 0 THEN 0 ELSE e[1].ret + sum(Tail(e))
  IN IF \E i \in 1..Len(ws) : ws[i].fail THEN <<>> ELSE <<sum(ws)>>

\* the decimal digits of n, as format!("{}", n) produces them
Dec(n) ==
  LET RECURSIVE digits(_)
      digits(k) == IF k < 10 THEN <<48 + k>> ELSE digits(k \div 10) \o <<48 + (k % 10)>>
  IN digits(n)

\* format!("{:0width$}", n): zero-padded on the left to at least width digits
Pad0(n, width) ==
  LET d == Dec(n)
  IN IF Len(d) >= width THEN d ELSE [i \in 1..(width - Len(d)) |-> 48] \o d

\* if let Some(ref x) = opt { count += x.stream(w)? }
SOpt(T, o) == IF Len(o) = 0 THEN <<>> ELSE Streamable_stream(T, o[1])

\* for x in items { count += x.stream(w)? }
SAll(T, items) ==
  LET RECURSIVE each(_)
      each(l) == IF Len(l) = 0 THEN <<>> ELSE Streamable_stream(T, l[1]) \o each(Tail(l))
  IN each(items)

\* for x in items { if !virgin { count += w.write(sep)? } count += x.stream(w)? }
SSep(T, sep, items) ==
  LET RECURSIVE each(_, _)
      each(l, virgin) ==
        IF Len(l) = 0 THEN <<>>
        ELSE (IF virgin THEN <<>> ELSE W(sep)) \o Streamable_stream(T, l[1]) \o each(Tail(l), FALSE)
  IN each(items, TRUE)

\* for &(ws, ref x) in items { if ws { count += w.write(b" ")? } count += x.stream(w)? }
SWs(T, items) ==
  LET RECURSIVE each(_)
      each(l) ==
        IF Len(l) = 0 THEN <<>>
        ELSE (IF l[1][1] THEN W(<<32>>) ELSE <<>>) \o Streamable_stream(T, l[1][2])
             \o each(Tail(l))
  IN each(items)

\* def_cclass!: $typ::stream
CClass_stream(x) == W(x)

QuotedPair_stream(x) == W(<<92>>) \o W(<<x>>)

FWS_stream(x) == W(<<32>>)

RECURSIVE Variant_stream(_)

Comment_stream(x) ==
  W(<<40>>) \o SWs("CContent", x.ccontent)
    \o (IF x.trailing_ws THEN W(<<32>>) ELSE <<>>) \o W(<<41>>)

CFWS_stream(x) ==
  SWs("Comment", x.comments) \o (IF x.trailing_ws THEN W(<<32>>) ELSE <<>>)

Atom_stream(x) ==
  SOpt("CFWS", x.pre_cfws) \o CClass_stream(x.atext) \o SOpt("CFWS", x.post_cfws)

DotAtomText_stream(x) == SSep("AText", <<46>>, x)

DotAtom_stream(x) ==
  SOpt("CFWS", x.pre_cfws) \o Streamable_stream("DotAtomText", x.dot_atom_text)
    \o SOpt("CFWS", x.post_cfws)

QuotedString_stream(x) ==
  SOpt("CFWS", x.pre_cfws) \o W(<<34>>) \o SWs("QContent", x.qcontent)
    \o (IF x.trailing_ws THEN W(<<32>>) ELSE <<>>) \o W(<<34>>)
    \o SOpt("CFWS", x.post_cfws)

Phrase_stream(x) == SAll("Word", x)

Unstructured_stream(x) ==
  (IF x.leading_ws THEN W(<<32>>) ELSE <<>>) \o SSep("VChar", <<32>>, x.parts)
    \o (IF x.trailing_ws THEN W(<<32>>) ELSE <<>>)

\* trailing_ws is not written
DomainLiteral_stream(x) ==
  SOpt("CFWS", x.pre_cfws) \o W(<<91>>) \o SWs("DText", x.dtext)
    \o W(<<93>>) \o SOpt("CFWS", x.post_cfws)

AddrSpec_stream(x) == Streamable_stream("LocalPart", x.local_part) \o W(<<64>>) \o Streamable_stream("Domain", x.domain)

AngleAddr_stream(x) ==
  SOpt("CFWS", x.pre_cfws) \o W(<<60>>) \o Streamable_stream("AddrSpec", x.addr_spec)
    \o W(<<62>>) \o SOpt("CFWS", x.post_cfws)

NameAddr_stream(x) == SOpt("Phrase", x.display_name) \o Streamable_stream("AngleAddr", x.angle_addr)

MailboxList_stream(x) == SSep("Mailbox", <<44>>, x)

Group_stream(x) ==
  Streamable_stream("Phrase", x.display_name) \o W(<<58>>) \o SOpt("GroupList", x.group_list)
    \o W(<<59>>) \o SOpt("CFWS", x.cfws)

AddressList_stream(x) == SSep("Address", <<44>>, x)

\* w.write(b" -")? or w.write(b" +")?, its count dropped; write!(w, "{:04}", v)?; Ok(6)
Zone_stream(x) ==
  LET v == IF x < 0 THEN -x ELSE x
      sign == IF x < 0 THEN <<32, 45>> ELSE <<32, 43>>
  IN Fmt(sign, 0) \o Fmt(Pad0(v, 4), 6)

\* Second::stream, Minute::stream, Hour::stream: write!(w, "{:02}", self.0)?; Ok(2)
TwoDigit_stream(x) == Fmt(Pad0(x, 2), 2)

TimeOfDay_stream(x) ==
  IF Len(x.second) > 0
  THEN Fmt(Pad0(x.hour, 2) \o <<58>> \o Pad0(x.minute, 2) \o <<58>> \o Pad0(x.second[1], 2), 8)
  ELSE Fmt(Pad0(x.hour, 2) \o <<58>> \o Pad0(x.minute, 2), 5)

Time_stream(x) == Streamable_stream("TimeOfDay", x.time_of_day) \o Streamable_stream("Zone", x.zone)

\* write!(w, " {:04} ", self.0)?; Ok(6)
Year_stream(x) == Fmt(<<32>> \o Pad0(x, 4) \o <<32>>, 6)

Month_stream(x) == IF x \in 1..12 THEN W(MonthText[x]) ELSE IoFail

\* write!(w, " {} ", self.0)?; Ok(4)
Day_stream(x) == Fmt(<<32>> \o Dec(x) \o <<32>>, 4)

Date_stream(x) == Streamable_stream("Day", x.day) \o Streamable_stream("Month", x.month) \o Streamable_stream("Year", x.year)

DayName_stream(x) == IF x \in 1..7 THEN W(DayText[x]) ELSE IoFail

DayOfWeek_stream(x) == SOpt("FWS", x.pre_fws) \o Streamable_stream("DayName", x.day_name)

DateTime_stream(x) ==
  (IF Len(x.day_of_week) > 0 THEN Streamable_stream("DayOfWeek", x.day_of_week[1]) \o W(<<44>>) ELSE <<>>)
    \o Streamable_stream("Date", x.date) \o Streamable_stream("Time", x.time) \o SOpt("CFWS", x.post_cfws)

NoFoldLiteral_stream(x) == W(<<91>>) \o CClass_stream(x) \o W(<<93>>)

MsgId_stream(x) ==
  SOpt("CFWS", x.pre_cfws) \o W(<<60>>) \o Streamable_stream("DotAtomText", x.id_left) \o W(<<64>>)
    \o Streamable_stream("IdRight", x.id_right) \o W(<<62>>) \o SOpt("CFWS", x.post_cfws)

Path_stream(x) ==
  CASE x.tag = "AngleAddr" -> Streamable_stream("AngleAddr", x.v)
    [] x.tag = "Other" ->
         SOpt("CFWS", x.v[1]) \o W(<<60>>) \o SOpt("CFWS", x.v[2])
           \o W(<<62>>) \o SOpt("CFWS", x.v[3])

(***************************************************************************)
(* rfc5322/headers.rs.  The header types share their code up to the names  *)
(* in it; Headers lists, for each type, the name its parse gives to Eof    *)
(* (eof), the lower-case name req_name! compares with (str, and lname its  *)
(* bytes), the bytes its stream writes first (text), the name its parse    *)
(* and its TryFrom give to Parse and TrailingInput (err), and the type of  *)
(* its value.                                                              *)
(***************************************************************************)
Headers ==
  [ OrigDate |->
      [type |-> "OrigDate", eof |-> "Date", str |-> "date:", err |-> "Date", value |-> "DateTime",
       lname |-> <<100, 97, 116, 101, 58>>,
       text |-> <<68, 97, 116, 101, 58>>],
    From |->
      [type |-> "From", eof |-> "From", str |-> "from:", err |-> "From", value |-> "MailboxList",
       lname |-> <<102, 114, 111, 109, 58>>,
       text |-> <<70, 114, 111, 109, 58>>],
    Sender |->
      [type |-> "Sender", eof |-> "Sender", str |-> "sender:", err |-> "Sender", value |-> "Mailbox",
       lname |-> <<115, 101, 110, 100, 101, 114, 58>>,
       text |-> <<83, 101, 110, 100, 101, 114, 58>>],
    ReplyTo |->
      [type |-> "ReplyTo", eof |-> "Reply-To", str |-> "reply-to:", err |-> "Reply-To", value |-> "AddressList",
       lname |-> <<114, 101, 112, 108, 121, 45, 116, 111, 58>>,
       text |-> <<82, 101, 112, 108, 121, 45, 84, 111, 58>>],
    To |->
      [type |-> "To", eof |-> "To", str |-> "to:", err |-> "To", value |-> "AddressList",
       lname |-> <<116, 111, 58>>,
       text |-> <<84, 111, 58>>],
    Cc |->
      [type |-> "Cc", eof |-> "Cc", str |-> "cc:", err |-> "Cc", value |-> "AddressList",
       lname |-> <<99, 99, 58>>,
       text |-> <<67, 99, 58>>],
    Bcc |->
      [type |-> "Bcc", eof |-> "Bcc", str |-> "bcc:", err |-> "Bcc", value |-> "AddressList",
       lname |-> <<98, 99, 99, 58>>,
       text |-> <<66, 99, 99, 58>>],
    MessageId |->
      [type |-> "MessageId", eof |-> "MessageId", str |-> "message-id:", err |-> "Message-Id", value |-> "MsgId",
       lname |-> <<109, 101, 115, 115, 97, 103, 101, 45, 105, 100, 58>>,
       text |-> <<77, 101, 115, 115, 97, 103, 101, 45, 73, 68, 58>>],
    InReplyTo |->
      [type |-> "InReplyTo", eof |-> "InReplyTo", str |-> "in-reply-to:", err |-> "In-Reply-To", value |-> "MsgId",
       lname |-> <<105, 110, 45, 114, 101, 112, 108, 121, 45, 116, 111, 58>>,
       text |-> <<73, 110, 45, 82, 101, 112, 108, 121, 45, 84, 111, 58>>],
    References |->
      [type |-> "References", eof |-> "References", str |-> "references:", err |-> "References", value |-> "MsgId",
       lname |-> <<114, 101, 102, 101, 114, 101, 110, 99, 101, 115, 58>>,
       text |-> <<82, 101, 102, 101, 114, 101, 110, 99, 101, 115, 58>>],
    Subject |->
      [type |-> "Subject", eof |-> "Subject", str |-> "subject:", err |-> "Subject", value |-> "Unstructured",
       lname |-> <<115, 117, 98, 106, 101, 99, 116, 58>>,
       text |-> <<83, 117, 98, 106, 101, 99, 116, 58>>],
    Comments |->
      [type |-> "Comments", eof |-> "Comments", str |-> "comments:", err |-> "Comments", value |-> "Unstructured",
       lname |-> <<99, 111, 109, 109, 101, 110, 116, 115, 58>>,
       text |-> <<67, 111, 109, 109, 101, 110, 116, 115, 58>>],
    Keywords |->
      [type |-> "Keywords", eof |-> "Keywords", str |-> "keywords:", err |-> "Keywords", value |-> "Phrase",
       lname |-> <<107, 101, 121, 119, 111, 114, 100, 115, 58>>,
       text |-> <<75, 101, 121, 119, 111, 114, 100, 115, 58>>],
    ResentDate |->
      [type |-> "ResentDate", eof |-> "Resent-Date", str |-> "resent-date:", err |-> "Resent-Date", value |-> "DateTime",
       lname |-> <<114, 101, 115, 101, 110, 116, 45, 100, 97, 116, 101, 58>>,
       text |-> <<82, 101, 115, 101, 110, 116, 45, 68, 97, 116, 101, 58>>],
    ResentFrom |->
      [type |-> "ResentFrom", eof |-> "Resent-From", str |-> "resent-from:", err |-> "Resent-From", value |-> "MailboxList",
       lname |-> <<114, 101, 115, 101, 110, 116, 45, 102, 114, 111, 109, 58>>,
       text |-> <<82, 101, 115, 101, 110, 116, 45, 70, 114, 111, 109, 58>>],
    ResentSender |->
      [type |-> "ResentSender", eof |-> "Resent-Sender", str |-> "resent-sender:", err |-> "Resent-Sender", value |-> "Mailbox",
       lname |-> <<114, 101, 115, 101, 110, 116, 45, 115, 101, 110, 100, 101, 114, 58>>,
       text |-> <<82, 101, 115, 101, 110, 116, 45, 83, 101, 110, 100, 101, 114, 58>>],
    ResentTo |->
      [type |-> "ResentTo", eof |-> "Resent-To", str |-> "resent-to:", err |-> "Resent-To", value |-> "AddressList",
       lname |-> <<114, 101, 115, 101, 110, 116, 45, 116, 111, 58>>,
       text |-> <<82, 101, 115, 101, 110, 116, 45, 84, 111, 58>>],
    ResentCc |->
      [type |-> "ResentCc", eof |-> "Resent-Cc", str |-> "resent-cc:", err |-> "Resent-Cc", value |-> "AddressList",
       lname |-> <<114, 101, 115, 101, 110, 116, 45, 99, 99, 58>>,
       text |-> <<82, 101, 115, 101, 110, 116, 45, 67, 99, 58>>],
    ResentBcc |->
      [type |-> "ResentBcc", eof |-> "Resent-Bcc", str |-> "resent-bcc:", err |-> "Resent-Bcc", value |-> "AddressList",
       lname |-> <<114, 101, 115, 101, 110, 116, 45, 98, 99, 99, 58>>,
       text |-> <<82, 101, 115, 101, 110, 116, 45, 66, 99, 99, 58>>],
    ResentMessageId |->
      [type |-> "ResentMessageId", eof |-> "Resent-Message-ID", str |-> "resent-message-id:", err |-> "Resent-Message-Id", value |-> "MsgId",
       lname |-> <<114, 101, 115, 101, 110, 116, 45, 109, 101, 115, 115, 97, 103, 101, 45, 105, 100, 58>>,
       text |-> <<82, 101, 115, 101, 110, 116, 45, 77, 101, 115, 115, 97, 103, 101, 45, 73, 68, 58>>],
    Received |->
      [type |-> "Received", eof |-> "Received", str |-> "received:", err |-> "Received", value |-> "DateTime",
       lname |-> <<114, 101, 99, 101, 105, 118, 101, 100, 58>>,
       text |-> <<82, 101, 99, 101, 105, 118, 101, 100, 58>>],
    Return |->
      [type |-> "Return", eof |-> "", str |-> "return-path:", err |-> "Return-Path", value |-> "Path",
       lname |-> <<114, 101, 116, 117, 114, 110, 45, 112, 97, 116, 104, 58>>,
       text |-> <<82, 101, 116, 117, 114, 110, 45, 80, 97, 116, 104, 58>>] ]

\* req_name! without to_ascii_lowercase(): the prefix itself must equal the name
ReqName_exact(cur, h) ==
  IF Len(cur) < Len(h.lname) \/ Take(cur, Len(h.lname)) # h.lname
  THEN Err(E("NotFound", h.str))
  ELSE Ok(<<>>, Drop(cur, Len(h.lname)))

\* req_name!(rem, $str): the lower-cased prefix must equal the name
ReqName(cur, h) ==
  IF Len(cur) < Len(h.lname) \/ Lower(Take(cur, Len(h.lname))) # h.lname
  THEN Err(E("NotFound", h.str))
  ELSE Ok(<<>>, Drop(cur, Len(h.lname)))

\* req_crlf!(rem)
ReqCrlf(cur) ==
  IF Len(cur) < 2 THEN Err(E("NotFound", "CRLF"))
  ELSE IF Take(cur, 2) # CRLF THEN Err(E("NotFound", "CRLF"))
  ELSE Ok(<<>>, Drop(cur, 2))

\* OrigDate::parse, From::parse, Sender::parse, ReplyTo::parse, To::parse,
\* Cc::parse, MessageId::parse, Subject::parse, Comments::parse, ResentDate::parse,
\* ResentFrom::parse, ResentSender::parse, ResentTo::parse, ResentCc::parse,
\* ResentMessageId::parse, and Return::parse (which has no Eof test):
\* name, value, CRLF; a failure of the value is wrapped in Parse(err, e)
Header_parse(h, s) ==
  LET name == ReqName(s, h) IN
  IF Len(s) = 0 /\ h.type # "Return" THEN Err(E("Eof", h.eof))
  ELSE IF ~name.ok THEN name
  ELSE LET x == Parsable_parse(h.value, name.rem) IN
       IF x.ok
       THEN LET crlf == ReqCrlf(x.rem)
            IN IF ~crlf.ok THEN crlf ELSE Ok(x.val, crlf.rem)
       ELSE Err(EParse(h.err, x.err))

\* the streams of the same headers: name, value, CRLF
Header_stream(h, x) == W(h.text) \o Streamable_stream(h.value, x) \o W(CRLF)

\* let (out, rem) = parse(input)?;
\* if rem.len() > 0 { return Err(ParseError::TrailingInput(name, input.len() - rem.len())) }
\* Ok(out)
Whole(name, x, s) ==
  IF ~x.ok THEN x
  ELSE IF Len(x.rem) > 0 THEN Err(ENum("TrailingInput", name, Len(s) - Len(x.rem)))
  ELSE Ok(x.val, <<>>)

\* impl_try_from!($from, $to) for &[u8]; "$to" is not substituted inside the
\* string literal, so it is the name the error carries
Header_try_from(h, s) == Whole("$to", Parsable_parse(h.value, s), s)

\* loop { match parse!(Elem, rem) { Ok(x) => push, Err(e) => { err = e; break } } }
\* and while let Ok(x) = parse!(Elem, rem) { push }
Many(T, s) ==
  LET RECURSIVE loop(_, _)
      step(x, r, items) ==
        IF x.ok THEN loop(x.rem, Append(items, x.val))
        ELSE [cur |-> r, items |-> items, err |-> x.err]
      loop(r, items) == step(Parsable_parse(T, r), r, items)
  IN loop(s, <<>>)

\* InReplyTo::parse, References::parse, Keywords::parse:
\* name, elements while one parses, at least one, CRLF
ListHeader_parse(h, s) ==
  LET name == ReqName(s, h) IN
  IF Len(s) = 0 THEN Err(E("Eof", h.eof))
  ELSE IF ~name.ok THEN name
  ELSE LET l == Many(h.value, name.rem) IN
       IF Len(l.items) = 0 THEN Err(EParse(h.err, l.err))
       ELSE LET crlf == ReqCrlf(l.cur)
            IN IF ~crlf.ok THEN crlf ELSE Ok(l.items, crlf.rem)

\* InReplyTo::stream, References::stream (elements one after the other) and
\* Keywords::stream (elements separated by ",")
ListHeader_stream(h, x) ==
  W(h.text)
    \o (IF h.type = "Keywords" THEN SSep("Phrase", <<44>>, x) ELSE SAll("MsgId", x))
    \o W(CRLF)

\* if rem.len() > 0 { Err(ParseError::TrailingInput(name, input.len() - rem.len())) }
\* else { Ok(items) }
WholeList(name, l, s) ==
  IF Len(l.cur) > 0 THEN Err(ENum("TrailingInput", name, Len(s) - Len(l.cur)))
  ELSE Ok(l.items, <<>>)

\* TryFrom<&[u8]> for InReplyTo, References, Keywords:
\* elements while one parses, then nothing may be left
ListHeader_try_from(h, s) == WholeList(h.err, Many(h.value, s), s)

\* Bcc::parse and ResentBcc::parse
Bcc_parse(h, s) ==
  LET name == ReqName(s, h) IN
  IF Len(s) = 0 THEN Err(E("Eof", h.eof))
  ELSE IF ~name.ok THEN name
  ELSE LET al == Parsable_parse("AddressList", name.rem) IN
       IF al.ok
       THEN LET crlf == ReqCrlf(al.rem)
            IN IF ~crlf.ok THEN crlf
               ELSE Ok([tag |-> "AddressList", v |-> al.val], crlf.rem)
       ELSE LET cfws == Parsable_parse("CFWS", name.rem) IN
            IF cfws.ok
            THEN LET crlf == ReqCrlf(cfws.rem)
                 IN IF ~crlf.ok THEN crlf
                    ELSE Ok([tag |-> "CFWS", v |-> cfws.val], crlf.rem)
            ELSE LET crlf == ReqCrlf(name.rem)
                 IN IF ~crlf.ok THEN crlf
                    ELSE Ok([tag |-> "Empty", v |-> <<>>], crlf.rem)

\* Bcc::stream and ResentBcc::stream
Bcc_stream(h, x) ==
  W(h.text)
    \o (CASE x.tag = "AddressList" -> Streamable_stream("AddressList", x.v)
          [] x.tag = "CFWS" -> Streamable_stream("CFWS", x.v)
          [] x.tag = "Empty" -> <<>>)
    \o W(CRLF)

\* Ok(Bcc::AddressList(out))
AddressListOf(x) == IF x.ok THEN Ok([tag |-> "AddressList", v |-> x.val], x.rem) ELSE x

\* TryFrom<&[u8]> for Bcc and ResentBcc
Bcc_try_from(h, s) ==
  AddressListOf(Whole(h.err, Parsable_parse("AddressList", s), s))

\* 3.6.7 received = "Received:" *received-token ";" date-time CRLF
Received_parse(s) ==
  LET name == ReqName(s, Headers.Received) IN
  IF Len(s) = 0 THEN Err(E("Eof", "Received"))
  ELSE IF ~name.ok THEN name
  ELSE LET l == Many("ReceivedToken", name.rem)
           cfws == Parsable_parse("CFWS", l.cur)
       IN IF Len(l.items) = 0 /\ ~cfws.ok THEN Err(EParse("Received", l.err))
          ELSE LET toks == IF Len(l.items) = 0 THEN [tag |-> "Comment", v |-> cfws.val]
                           ELSE [tag |-> "Tokens", v |-> l.items]
                   semi == Req(IF Len(l.items) = 0 THEN cfws.rem ELSE l.cur, <<59>>)
               IN IF ~semi.ok THEN semi
                  ELSE LET dt == Parsable_parse("DateTime", semi.rem) IN
                       IF dt.ok
                       THEN LET crlf == ReqCrlf(dt.rem)
                            IN IF ~crlf.ok THEN crlf
                               ELSE Ok([received_tokens |-> toks, date_time |-> dt.val],
                                       crlf.rem)
                       ELSE Err(EParse("Received", dt.err))

Received_stream(x) ==
  W(Headers.Received.text)
    \o (CASE x.received_tokens.tag = "Tokens" -> SAll("ReceivedToken", x.received_tokens.v)
          [] x.received_tokens.tag = "Comment" -> Streamable_stream("CFWS", x.received_tokens.v))
    \o W(<<59>>) \o Streamable_stream("DateTime", x.date_time) \o W(CRLF)

\* TryFrom<&[u8]> for Received: the fudged input is built but the raw input is parsed
Received_try_from(s) == Whole("Received", Parsable_parse("Received", s), s)

\* 3.6.8 optional-field = field-name ":" unstructured CRLF
OptionalField_parse(s) ==
  LET name == Parsable_parse("FieldName", s) IN
  IF name.ok
  THEN LET colon == Req(name.rem, <<58>>) IN
       IF ~colon.ok THEN colon
       ELSE LET value == Parsable_parse("Unstructured", colon.rem) IN
            IF value.ok
            THEN LET crlf == ReqCrlf(value.rem)
                 IN IF ~crlf.ok THEN crlf
                    ELSE Ok([name |-> name.val, value |-> value.val], crlf.rem)
            ELSE Err(EParse("Optional Field", value.err))
  ELSE Err(EParse("Optional Field", name.err))

OptionalField_stream(x) ==
  CClass_stream(x.name) \o W(<<58>>) \o Streamable_stream("Unstructured", x.value) \o W(CRLF)

\* TryFrom<(&[u8], &[u8])> for OptionalField
OptionalField_try_from(n, v) ==
  LET name == Parsable_parse("FieldName", n)
      value == Parsable_parse("Unstructured", v)
  IN IF ~name.ok THEN name
     ELSE IF Len(name.rem) > 0
          THEN Err(ENum("TrailingInput", "Optional Field", Len(n) - Len(name.rem)))
     ELSE IF ~value.ok THEN value
     ELSE IF Len(value.rem) > 0
          THEN Err(ENum("TrailingInput", "Optional Field", Len(v) - Len(value.rem)))
     ELSE Ok([name |-> name.val, value |-> value.val], <<>>)

(***************************************************************************)
(* rfc5322/mod.rs: fields, body, message.                                  *)
(***************************************************************************)
\* if let Ok(x) = parse!(T, rem) { return Ok((Variant(x), rem)) } for each type of
\* order in turn; the variant is tagged with the name of its type
FirstOf(order, s) ==
  LET RECURSIVE try(_)
      try(i) ==
        IF i > Len(order) THEN Err(E("NotFound", ""))
        ELSE LET x == Parsable_parse(order[i], s)
             IN IF x.ok THEN Ok([tag |-> order[i], v |-> x.val], x.rem) ELSE try(i + 1)
  IN try(1)

\* 3.6.7 trace = [return] 1*received
Trace_parse(s) ==
  LET ret == Parsable_parse("Return", s)
      l == Many("Received", After(ret, s))
  IN IF Len(l.items) < 1 THEN Err(E("NotFound", ""))
     ELSE Ok([return_path |-> Opt(ret), received |-> l.items], l.cur)

Trace_stream(x) ==
  SOpt("Return", x.return_path)
    \o SAll("Received", x.received)

\* the types ResentField::parse tries, in its order
ResentOrder ==
  <<"ResentDate", "ResentFrom", "ResentSender", "ResentTo", "ResentCc", "ResentBcc",
    "ResentMessageId">>

ResentField_parse(s) == FirstOf(ResentOrder, s)

ResentField_stream(x) == Streamable_stream(x.tag, x.v)

\* the typed headers Field::parse tries, in its order, before OptionalField
FieldOrder ==
  <<"OrigDate", "From", "Sender", "ReplyTo", "To", "Cc", "Bcc", "MessageId", "InReplyTo",
    "References", "Subject", "Comments", "Keywords">>

Field_parse(s) ==
  LET typed == FirstOf(FieldOrder, s) IN
  IF typed.ok THEN typed
  ELSE LET o == Parsable_parse("OptionalField", s) IN
       IF o.ok THEN Ok([tag |-> "OptionalField", v |-> o.val], o.rem)
       ELSE Err(E("NotFound", ""))

Field_stream(x) ==
  IF x.tag = "OptionalField" THEN Streamable_stream("OptionalField", x.v)
  ELSE Streamable_stream(x.tag, x.v)

ResentTraceBlock_parse(s) ==
  LET t == Parsable_parse("Trace", s) IN
  IF t.ok
  THEN LET l == Many("ResentField", t.rem) IN
       IF Len(l.items) = 0 THEN Err(E("ExpectedType", "Resent Field"))
       ELSE Ok([trace |-> t.val, resent_fields |-> l.items], l.cur)
  ELSE Err(E("NotFound", ""))

ResentTraceBlock_stream(x) == Streamable_stream("Trace", x.trace) \o SAll("ResentField", x.resent_fields)

OptTraceBlock_parse(s) ==
  LET t == Parsable_parse("Trace", s) IN
  IF t.ok
  THEN LET l == Many("OptionalField", t.rem) IN
       IF Len(l.items) = 0 THEN Err(E("ExpectedType", "Optional Field"))
       ELSE Ok([trace |-> t.val, opt_fields |-> l.items], l.cur)
  ELSE Err(E("NotFound", ""))

OptTraceBlock_stream(x) == Streamable_stream("Trace", x.trace) \o SAll("OptionalField", x.opt_fields)

TraceBlock_parse(s) ==
  LET a == Parsable_parse("ResentTraceBlock", s) IN
  IF a.ok THEN Ok([tag |-> "Resent", v |-> a.val], a.rem)
  ELSE LET b == Parsable_parse("OptTraceBlock", s) IN
       IF b.ok THEN Ok([tag |-> "Opt", v |-> b.val], b.rem)
       ELSE Err(E("NotFound", ""))

\* 3.6 fields
Fields_parse(s) ==
  LET tbs == Many("TraceBlock", s)
      fs == Many("Field", tbs.cur)
  IN Ok([trace_blocks |-> tbs.items, fields |-> fs.items], fs.cur)

\* match *self { V(ref x) => x.stream(w), ... } of the enums CContent, QContent, Word,
\* LocalPart, Domain, Mailbox, GroupList, Address, IdRight, ReceivedToken and
\* TraceBlock: the stream of the type the variant holds
Variant_stream(x) ==
  CASE x.tag \in {"CText", "QText"} -> CClass_stream(x.v)
    [] x.tag = "QuotedPair" -> Streamable_stream("QuotedPair", x.v)
    [] x.tag = "Comment" -> Streamable_stream("Comment", x.v)
    [] x.tag = "Atom" -> Streamable_stream("Atom", x.v)
    [] x.tag = "QuotedString" -> Streamable_stream("QuotedString", x.v)
    [] x.tag = "Word" -> Variant_stream(x.v)
    [] x.tag = "DotAtom" -> Streamable_stream("DotAtom", x.v)
    [] x.tag = "DotAtomText" -> Streamable_stream("DotAtomText", x.v)
    [] x.tag = "NoFoldLiteral" -> Streamable_stream("NoFoldLiteral", x.v)
    [] x.tag = "DomainLiteral" -> Streamable_stream("DomainLiteral", x.v)
    [] x.tag = "Domain" -> Variant_stream(x.v)
    [] x.tag = "AddrSpec" -> Streamable_stream("AddrSpec", x.v)
    [] x.tag = "AngleAddr" -> Streamable_stream("AngleAddr", x.v)
    [] x.tag = "NameAddr" -> Streamable_stream("NameAddr", x.v)
    [] x.tag = "Mailbox" -> Variant_stream(x.v)
    [] x.tag = "MailboxList" -> Streamable_stream("MailboxList", x.v)
    [] x.tag = "CFWS" -> Streamable_stream("CFWS", x.v)
    [] x.tag = "Group" -> Streamable_stream("Group", x.v)
    [] x.tag = "Resent" -> Streamable_stream("ResentTraceBlock", x.v)
    [] x.tag = "Opt" -> Streamable_stream("OptTraceBlock", x.v)

Fields_stream(x) == SAll("TraceBlock", x.trace_blocks) \o SAll("Field", x.fields)

\* the longest line Body::parse accepts
LineLimit == 998

\* BufReadExt::stream_until_token(token, &mut line) on a byte slice: the bytes
\* before the first occurrence of the token go to line and the reader moves
\* past the token; without an occurrence all bytes go to line
stream_until_token(s, token) ==
  LET at == {i \in 1..(Len(s) - Len(token) + 1) : SubSeq(s, i, i + Len(token) - 1) = token}
      first == CHOOSE i \in at : \A j \in at : i <= j
  IN IF at = {} THEN [line |-> s, rest |-> <<>>, found |-> FALSE]
     ELSE [line |-> Take(s, first - 1), rest |-> Drop(s, first + Len(token) - 1),
           found |-> TRUE]

\* a Body::parse that rejects a line of LineLimit bytes
Body_parse_strict(s) ==
  LET RECURSIVE loop(_, _, _)
      loop(inp, body, line_number) ==
        LET t == stream_until_token(inp, CRLF)
            text == Parsable_parse("Text", t.line)
            body1 == IF text.ok THEN body \o text.val ELSE body
        IN IF text.ok /\ Len(text.rem) > 0
           THEN Err(ENum("InvalidBodyChar", "", text.rem[1]))
           ELSE IF text.ok /\ Len(text.val) >= LineLimit
           THEN Err(ENum("LineTooLong", "", line_number))
           ELSE IF ~t.found THEN Ok(body1, t.rest)
           ELSE loop(t.rest, body1 \o CRLF, line_number + 1)
  IN loop(s, <<>>, 1)

\* 3.5 body = *(*998text CRLF) *998text
Body_parse(s) ==
  LET RECURSIVE loop(_, _, _)
      loop(inp, body, line_number) ==
        LET t == stream_until_token(inp, CRLF)
            text == Parsable_parse("Text", t.line)
            body1 == IF text.ok THEN body \o text.val ELSE body
        IN IF text.ok /\ Len(text.rem) > 0
           THEN Err(ENum("InvalidBodyChar", "", text.rem[1]))
           ELSE IF text.ok /\ Len(text.val) > LineLimit
           THEN Err(ENum("LineTooLong", "", line_number))
           ELSE IF ~t.found THEN Ok(body1, t.rest)
           ELSE loop(t.rest, body1 \o CRLF, line_number + 1)
  IN loop(s, <<>>, 1)

Body_stream(x) == W(x)

\* the outcome of indexing a slice out of range: the thread panics, no Result
\* is returned
Panic == Err(E("Panic", "range end index 2 out of range for slice"))

\* 3.5 message = fields [CRLF body]
Message_parse(s) ==
  LET fields == Parsable_parse("Fields", s) IN
  IF fields.ok
  THEN IF Len(fields.rem) < 2 THEN Panic
       ELSE IF Take(fields.rem, 2) # CRLF
       THEN Ok([fields |-> fields.val, body |-> <<>>], fields.rem)
       ELSE LET b == Parsable_parse("Body", Drop(fields.rem, 2)) IN
            IF b.ok THEN Ok([fields |-> fields.val, body |-> <<b.val>>], b.rem)
            ELSE b
  ELSE Err(E("NotFound", ""))

Message_stream(x) == Streamable_stream("Fields", x.fields) \o SOpt("Body", x.body)

(***************************************************************************)
(* lib.rs: Email.                                                          *)
(***************************************************************************)
\* a panic unwinds through Email::parse; an Err is wrapped in Parse("Email", e)
Email_parse(s) ==
  LET m == Parsable_parse("Message", s) IN
  IF m = Panic THEN Panic
  ELSE IF m.ok THEN Ok([message |-> m.val], m.rem)
  ELSE Err(EParse("Email", m.err))

Email_stream(x) == Streamable_stream("Message", x.message)

(***************************************************************************)
(* The operations, by the name of the type they belong to.                 *)
(***************************************************************************)
\* the header types whose value is a list of elements
ListHeaders == {"InReplyTo", "References", "Keywords"}

\* the header types whose value is an address list, CFWS or nothing
BccHeaders == {"Bcc", "ResentBcc"}

\* the header types made of a name, one value and CRLF
PlainHeaders == DOMAIN Headers \ (ListHeaders \cup BccHeaders \cup {"Received"})

\* <T as Parsable>::parse(s)
Parsable_parse(T, s) ==
  CASE T \in CClasses -> CClassParse(T, s)
    [] T \in {"Second", "Minute", "Hour"} -> TwoDigit_parse(T, s)
    [] T = "DisplayName" -> Phrase_parse(s)
    [] T \in ListHeaders -> ListHeader_parse(Headers[T], s)
    [] T \in BccHeaders -> Bcc_parse(Headers[T], s)
    [] T = "Received" -> Received_parse(s)
    [] T \in PlainHeaders -> Header_parse(Headers[T], s)
    [] T = "QuotedPair" -> QuotedPair_parse(s)
    [] T = "FWS" -> FWS_parse(s)
    [] T = "CContent" -> CContent_parse(s)
    [] T = "Comment" -> Comment_parse(s)
    [] T = "CFWS" -> CFWS_parse(s)
    [] T = "Atom" -> Atom_parse(s)
    [] T = "DotAtomText" -> DotAtomText_parse(s)
    [] T = "DotAtom" -> DotAtom_parse(s)
    [] T = "QContent" -> QContent_parse(s)
    [] T = "QuotedString" -> QuotedString_parse(s)
    [] T = "Word" -> Word_parse(s)
    [] T = "Phrase" -> Phrase_parse(s)
    [] T = "Unstructured" -> Unstructured_parse(s)
    [] T = "LocalPart" -> LocalPart_parse(s)
    [] T = "DomainLiteral" -> DomainLiteral_parse(s)
    [] T = "Domain" -> Domain_parse(s)
    [] T = "AddrSpec" -> AddrSpec_parse(s)
    [] T = "AngleAddr" -> AngleAddr_parse(s)
    [] T = "NameAddr" -> NameAddr_parse(s)
    [] T = "Mailbox" -> Mailbox_parse(s)
    [] T = "MailboxList" -> MailboxList_parse(s)
    [] T = "GroupList" -> GroupList_parse(s)
    [] T = "Group" -> Group_parse(s)
    [] T = "Address" -> Address_parse(s)
    [] T = "AddressList" -> AddressList_parse(s)
    [] T = "Zone" -> Zone_parse(s)
    [] T = "TimeOfDay" -> TimeOfDay_parse(s)
    [] T = "Time" -> Time_parse(s)
    [] T = "Year" -> Year_parse(s)
    [] T = "Month" -> Month_parse(s)
    [] T = "Day" -> Day_parse(s)
    [] T = "Date" -> Date_parse(s)
    [] T = "DayName" -> DayName_parse(s)
    [] T = "DayOfWeek" -> DayOfWeek_parse(s)
    [] T = "DateTime" -> DateTime_parse(s)
    [] T = "NoFoldLiteral" -> NoFoldLiteral_parse(s)
    [] T = "IdRight" -> IdRight_parse(s)
    [] T = "IdLeft" -> IdLeft_parse(s)
    [] T = "MsgId" -> MsgId_parse(s)
    [] T = "ReceivedToken" -> ReceivedToken_parse(s)
    [] T = "Path" -> Path_parse(s)
    [] T = "FieldName" -> FieldName_parse(s)
    [] T = "OptionalField" -> OptionalField_parse(s)
    [] T = "Trace" -> Trace_parse(s)
    [] T = "ResentField" -> ResentField_parse(s)
    [] T = "Field" -> Field_parse(s)
    [] T = "ResentTraceBlock" -> ResentTraceBlock_parse(s)
    [] T = "OptTraceBlock" -> OptTraceBlock_parse(s)
    [] T = "TraceBlock" -> TraceBlock_parse(s)
    [] T = "Fields" -> Fields_parse(s)
    [] T = "Body" -> Body_parse(s)
    [] T = "Message" -> Message_parse(s)
    [] T = "Email" -> Email_parse(s)

\* <T as Streamable>::stream(x)
Streamable_stream(T, x) ==
  CASE T \in CClasses -> CClass_stream(x)
    [] T \in {"Second", "Minute", "Hour"} -> TwoDigit_stream(x)
    [] T \in {"DisplayName", "IdLeft"} -> IF T = "IdLeft" THEN DotAtomText_stream(x)
                                          ELSE Phrase_stream(x)
    [] T = "FieldName" -> CClass_stream(x)
    [] T \in {"CContent", "QContent", "Word", "LocalPart", "Domain", "Mailbox", "GroupList",
              "Address", "IdRight", "ReceivedToken", "TraceBlock"} -> Variant_stream(x)
    [] T \in ListHeaders -> ListHeader_stream(Headers[T], x)
    [] T \in BccHeaders -> Bcc_stream(Headers[T], x)
    [] T = "Received" -> Received_stream(x)
    [] T \in PlainHeaders -> Header_stream(Headers[T], x)
    [] T = "QuotedPair" -> QuotedPair_stream(x)
    [] T = "FWS" -> FWS_stream(x)
    [] T = "Comment" -> Comment_stream(x)
    [] T = "CFWS" -> CFWS_stream(x)
    [] T = "Atom" -> Atom_stream(x)
    [] T = "DotAtomText" -> DotAtomText_stream(x)
    [] T = "DotAtom" -> DotAtom_stream(x)
    [] T = "QuotedString" -> QuotedString_stream(x)
    [] T = "Phrase" -> Phrase_stream(x)
    [] T = "Unstructured" -> Unstructured_stream(x)
    [] T = "DomainLiteral" -> DomainLiteral_stream(x)
    [] T = "AddrSpec" -> AddrSpec_stream(x)
    [] T = "AngleAddr" -> AngleAddr_stream(x)
    [] T = "NameAddr" -> NameAddr_stream(x)
    [] T = "MailboxList" -> MailboxList_stream(x)
    [] T = "Group" -> Group_stream(x)
    [] T = "AddressList" -> AddressList_stream(x)
    [] T = "Zone" -> Zone_stream(x)
    [] T = "TimeOfDay" -> TimeOfDay_stream(x)
    [] T = "Time" -> Time_stream(x)
    [] T = "Year" -> Year_stream(x)
    [] T = "Month" -> Month_stream(x)
    [] T = "Day" -> Day_stream(x)
    [] T = "Date" -> Date_stream(x)
    [] T = "DayName" -> DayName_stream(x)
    [] T = "DayOfWeek" -> DayOfWeek_stream(x)
    [] T = "DateTime" -> DateTime_stream(x)
    [] T = "NoFoldLiteral" -> NoFoldLiteral_stream(x)
    [] T = "MsgId" -> MsgId_stream(x)
    [] T = "Path" -> Path_stream(x)
    [] T = "OptionalField" -> OptionalField_stream(x)
    [] T = "Trace" -> Trace_stream(x)
    [] T = "ResentField" -> ResentField_stream(x)
    [] T = "Field" -> Field_stream(x)
    [] T = "ResentTraceBlock" -> ResentTraceBlock_stream(x)
    [] T = "OptTraceBlock" -> OptTraceBlock_stream(x)
    [] T = "Fields" -> Fields_stream(x)
    [] T = "Body" -> Body_stream(x)
    [] T = "Message" -> Message_stream(x)
    [] T = "Email" -> Email_stream(x)

\* the types with a validating conversion from &[u8]
Convertibles == DOMAIN Headers

\* <T as TryFrom<&[u8]>>::try_from(s)
TryFrom_try_from(T, s) ==
  CASE T \in ListHeaders -> ListHeader_try_from(Headers[T], s)
    [] T \in BccHeaders -> Bcc_try_from(Headers[T], s)
    [] T = "Received" -> Received_try_from(s)
    [] T \in PlainHeaders -> Header_try_from(Headers[T], s)

\* the types with a parse function
Productions ==
  CClasses \cup DOMAIN Headers \cup {"Second", "Minute", "Hour", "DisplayName"}
    \cup {"QuotedPair", "FWS", "CContent", "Comment", "CFWS", "Atom",
          "DotAtomText", "DotAtom", "QContent", "QuotedString", "Word", "Phrase",
          "Unstructured", "LocalPart", "DomainLiteral", "Domain", "AddrSpec", "AngleAddr",
          "NameAddr", "Mailbox", "MailboxList", "GroupList", "Group", "Address",
          "AddressList", "Zone", "TimeOfDay", "Time", "Year", "Month",
          "Day", "Date", "DayName", "DayOfWeek", "DateTime", "NoFoldLiteral",
          "IdRight", "IdLeft", "MsgId", "ReceivedToken", "Path", "FieldName",
          "OptionalField", "Trace", "ResentField", "Field", "ResentTraceBlock", "OptTraceBlock",
          "TraceBlock", "Fields", "Body", "Message", "Email"}

(***************************************************************************)
(* lib.rs: Email::new and the set, get and clear functions.                *)
(***************************************************************************)
\* Email::new(from, date): the date is converted first, then the from
Email_new(from, date) ==
  LET d == TryFrom_try_from("OrigDate", date)
      f == TryFrom_try_from("From", from)
  IN IF ~d.ok THEN d
     ELSE IF ~f.ok THEN f
     ELSE Ok([message |->
                [fields |-> [trace_blocks |-> <<>>,
                             fields |-> <<[tag |-> "OrigDate", v |-> d.val],
                                          [tag |-> "From", v |-> f.val]>>],
                 body |-> <<>>]],
             <<>>)

\* the headers with set_X, get_X and clear_X that hold one value
Singles ==
  {"Sender", "ReplyTo", "To", "Cc", "Bcc", "MessageId", "InReplyTo", "References", "Subject"}

\* self.message.fields.fields
FieldList(e) == e.message.fields.fields

\* the email with its field list replaced
WithFieldList(e, fs) ==
  [e EXCEPT !.message = [e.message EXCEPT !.fields = [e.message.fields EXCEPT !.fields = fs]]]

\* set_X with the push alone: the field is appended whether or not one is there
Email_set_push(e, X, value) ==
  WithFieldList(e, Append(FieldList(e), [tag |-> X, v |-> value]))

\* set_X after the conversion: the first field of type X is replaced, and
\* without one the field is pushed at the end
Email_set(e, X, value) ==
  LET fs == FieldList(e)
      at == {i \in 1..Len(fs) : fs[i].tag = X}
      first == CHOOSE i \in at : \A j \in at : i <= j
  IN IF at # {} THEN WithFieldList(e, [fs EXCEPT ![first] = [tag |-> X, v |-> value]])
     ELSE WithFieldList(e, Append(fs, [tag |-> X, v |-> value]))

\* get_X: the value of the first field of type X, or None
Email_get(e, X) ==
  LET fs == FieldList(e)
      at == {i \in 1..Len(fs) : fs[i].tag = X}
      first == CHOOSE i \in at : \A j \in at : i <= j
  IN IF at # {} THEN <<fs[first].v>> ELSE <<>>

\* clear_X: fields.retain(|field| not of type X)
Email_clear(e, X) ==
  LET keep(f) == f.tag # X
  IN WithFieldList(e, SelectSeq(FieldList(e), keep))

\* get_date: the value of the first Date field; without one the loop ends and
\* unreachable!() panics (set_date ends the same way)
Email_get_date(e) ==
  LET fs == FieldList(e)
      at == {i \in 1..Len(fs) : fs[i].tag = "OrigDate"}
  IN IF at # {} THEN Ok(fs[CHOOSE i \in at : \A j \in at : i <= j].v, <<>>) ELSE Panic

\* get_from: the value of the first From field, or the panic of unreachable!()
\* (set_from ends the same way)
Email_get_from(e) ==
  LET fs == FieldList(e)
      at == {i \in 1..Len(fs) : fs[i].tag = "From"}
  IN IF at # {} THEN Ok(fs[CHOOSE i \in at : \A j \in at : i <= j].v, <<>>) ELSE Panic

(***************************************************************************)
(* The inputs.  An input is a concatenation of named fragments; fed keeps  *)
(* the names, so that a property can speak of the shape of the input.      *)
(***************************************************************************)
\* the number of fragments of a message
MaxMsgFrags == 4

\* the number of fragments of a body
MaxBodyFrags == 4

\* the number of fragments appended to the first one of a production's input
MaxTail == 1

\* the number of set and clear calls made on an Email
MaxCalls == 3

\* n copies of the byte c
Run(n, c) == [i \in 1..n |-> c]
\* the fragments of a message: header fields, the blank line, body text, a stray byte
MsgFrags ==
  [ Subject |->  (* Subject: a\r\n *)
      <<83, 117, 98, 106, 101, 99, 116, 58, 32, 97, 13, 10>>,
    From |->  (* From: x@y.z\r\n *)
      <<70, 114, 111, 109, 58, 32, 120, 64, 121, 46, 122, 13, 10>>,
    To |->  (* To: a@b.c, Joe <j@x.y>\r\n *)
      <<84, 111, 58, 32, 97, 64, 98, 46, 99, 44, 32, 74, 111, 101, 32, 60, 106, 64, 120, 46, 121, 62, 13, 10>>,
    Keywords |->  (* Keywords: a,b\r\n *)
      <<75, 101, 121, 119, 111, 114, 100, 115, 58, 32, 97, 44, 98, 13, 10>>,
    blank |->  (* \r\n *)
      <<13, 10>>,
    text |->  (* hi\r\nyo *)
      <<104, 105, 13, 10, 121, 111>>,
    stray |->  (* x *)
      <<120>> ]

\* the fragments of a body: text, a line break, a line of LineLimit bytes, bytes that are
\* not text
BodyFrags ==
  [ a |->  (* a *)
      <<97>>,
    crlf |->  (* \r\n *)
      <<13, 10>>,
    full |->  (* LineLimit times a *)
      Run(LineLimit, 97),
    nul |->  (* \x00 *)
      <<0>>,
    high |->  (* È *)
      <<200>> ]

\* the first fragment of the input of a production
ProdSeeds ==
  [ empty |->  (* empty *)
      <<>>,
    alpha |->  (* abc *)
      <<97, 98, 99>>,
    digits |->  (* 12 *)
      <<49, 50>>,
    space |->  (*   *)
      <<32>>,
    nul |->  (* \x00 *)
      <<0>>,
    comment |->  (* (c (d)\\e) *)
      <<40, 99, 32, 40, 100, 41, 92, 101, 41>>,
    cfws |->  (*  (a) *)
      <<32, 40, 97, 41>>,
    folded |->  (* ( a\t \\n(b) \r\n )\r\n (c) *)
      <<40, 32, 97, 9, 32, 92, 110, 40, 98, 41, 32, 13, 10, 32, 41, 13, 10, 32, 40, 99, 41>>,
    openquote |->  (* "b *)
      <<34, 98>>,
    opencomment |->  (* (a *)
      <<40, 97>>,
    openliteral |->  (* [1.2 *)
      <<91, 49, 46, 50>>,
    openphrase |->  (* a "b *)
      <<97, 32, 34, 98>>,
    quoted |->  (* "q r" *)
      <<34, 113, 32, 114, 34>>,
    pair |->  (* \\x *)
      <<92, 120>>,
    dotatom |->  (* a.b *)
      <<97, 46, 98>>,
    addr |->  (* a@b.c *)
      <<97, 64, 98, 46, 99>>,
    trailing |->  (* mike@optcomp.nz[.xyz] *)
      <<109, 105, 107, 101, 64, 111, 112, 116, 99, 111, 109, 112, 46, 110, 122, 91, 46, 120, 121, 122, 93>>,
    litaddr |->  (* a@[1.2 ] *)
      <<97, 64, 91, 49, 46, 50, 32, 93>>,
    quotaddr |->  (* "q r"@[x] *)
      <<34, 113, 32, 114, 34, 64, 91, 120, 93>>,
    angle |->  (* <a@b.c> *)
      <<60, 97, 64, 98, 46, 99, 62>>,
    named |->  (* Joe <j@x.y> *)
      <<74, 111, 101, 32, 60, 106, 64, 120, 46, 121, 62>>,
    list |->  (* a@b.c,d@e.f *)
      <<97, 64, 98, 46, 99, 44, 100, 64, 101, 46, 102>>,
    commas |->  (* a@b.c, "j p" <d.e@e.f>,, *)
      <<97, 64, 98, 46, 99, 44, 32, 34, 106, 32, 112, 34, 32, 60, 100, 46, 101, 64, 101, 46, 102, 62, 44, 44>>,
    unstruct |->  (* This is; unstructured=5 \r\n  *)
      <<84, 104, 105, 115, 32, 105, 115, 59, 32, 117, 110, 115, 116, 114, 117, 99, 116, 117, 114, 101, 100, 61, 53, 32, 13, 10, 32>>,
    foldedtext |->  (* \r\n a\r\n\tb\r\n \r\n *)
      <<13, 10, 32, 97, 13, 10, 9, 98, 13, 10, 32, 13, 10>>,
    group |->  (* G:a@b; *)
      <<71, 58, 97, 64, 98, 59>>,
    literal |->  (* [1.2] *)
      <<91, 49, 46, 50, 93>>,
    msgid |->  (* <1@x.y> *)
      <<60, 49, 64, 120, 46, 121, 62>>,
    day1 |->  (*  5  *)
      <<32, 53, 32>>,
    day2 |->  (* 05  *)
      <<48, 53, 32>>,
    date1 |->  (* 1 Nov 1997  *)
      <<49, 32, 78, 111, 118, 32, 49, 57, 57, 55, 32>>,
    date2 |->  (* 21 Nov 1997  *)
      <<50, 49, 32, 78, 111, 118, 32, 49, 57, 57, 55, 32>>,
    time |->  (* 09:55:06 -0600 *)
      <<48, 57, 58, 53, 53, 58, 48, 54, 32, 45, 48, 54, 48, 48>>,
    datetime1 |->  (* Fri, 1 Nov 1997 09:55 +0000 *)
      <<70, 114, 105, 44, 32, 49, 32, 78, 111, 118, 32, 49, 57, 57, 55, 32, 48, 57, 58, 53, 53, 32, 43, 48, 48, 48, 48>>,
    datetime2 |->  (* suN, 01 DEC 2000 12:12:12 -1300 *)
      <<115, 117, 78, 44, 32, 48, 49, 32, 68, 69, 67, 32, 50, 48, 48, 48, 32, 49, 50, 58, 49, 50, 58, 49, 50, 32, 45, 49, 51, 48, 48>>,
    nocomma |->  (* Fri 1 Nov 1997 09:55 +0000 *)
      <<70, 114, 105, 32, 49, 32, 78, 111, 118, 32, 49, 57, 57, 55, 32, 48, 57, 58, 53, 53, 32, 43, 48, 48, 48, 48>>,
    fwsday |->  (* \r\n Fri, 1 Nov 1997 09:55 +0000 *)
      <<13, 10, 32, 70, 114, 105, 44, 32, 49, 32, 78, 111, 118, 32, 49, 57, 57, 55, 32, 48, 57, 58, 53, 53, 32, 43, 48, 48, 48, 48>>,
    plaindate |->  (* 1 Nov 1997 09:55 +0000 *)
      <<49, 32, 78, 111, 118, 32, 49, 57, 57, 55, 32, 48, 57, 58, 53, 53, 32, 43, 48, 48, 48, 48>>,
    year |->  (*  1997  *)
      <<32, 49, 57, 57, 55, 32>>,
    zone |->  (*  -0600 *)
      <<32, 45, 48, 54, 48, 48>>,
    zerominus |->  (*  -0000 *)
      <<32, 45, 48, 48, 48, 48>>,
    zoneplus |->  (*  +0530 *)
      <<32, 43, 48, 53, 51, 48>>,
    month |->  (* Nov *)
      <<78, 111, 118>>,
    dayname |->  (* Fri *)
      <<70, 114, 105>>,
    subject |->  (* Subject: a\r\n *)
      <<83, 117, 98, 106, 101, 99, 116, 58, 32, 97, 13, 10>>,
    from |->  (* From: a@b\r\n *)
      <<70, 114, 111, 109, 58, 32, 97, 64, 98, 13, 10>>,
    mixedfrom |->  (* froM: a@b\r\n *)
      <<102, 114, 111, 77, 58, 32, 97, 64, 98, 13, 10>>,
    upperdate |->  (* DATE: 1 Nov 1997 09:55 +0000\r\n *)
      <<68, 65, 84, 69, 58, 32, 49, 32, 78, 111, 118, 32, 49, 57, 57, 55, 32, 48, 57, 58, 53, 53, 32, 43, 48, 48, 48, 48, 13, 10>>,
    lowermsgid |->  (* message-id:<1@x.y>\r\n *)
      <<109, 101, 115, 115, 97, 103, 101, 45, 105, 100, 58, 60, 49, 64, 120, 46, 121, 62, 13, 10>>,
    mixedreplyto |->  (* rEPLY-tO:a@b\r\n *)
      <<114, 69, 80, 76, 89, 45, 116, 79, 58, 97, 64, 98, 13, 10>>,
    baddate |->  (* Date: x\r\n *)
      <<68, 97, 116, 101, 58, 32, 120, 13, 10>>,
    nosemi |->  (* Received: x\r\n *)
      <<82, 101, 99, 101, 105, 118, 101, 100, 58, 32, 120, 13, 10>>,
    keywords |->  (* Keywords: a b\r\n *)
      <<75, 101, 121, 119, 111, 114, 100, 115, 58, 32, 97, 32, 98, 13, 10>>,
    keywordlist |->  (* Keywords: a,b\r\n *)
      <<75, 101, 121, 119, 111, 114, 100, 115, 58, 32, 97, 44, 98, 13, 10>>,
    inreplyto |->  (* In-Reply-To: <1@x.y>\r\n *)
      <<73, 110, 45, 82, 101, 112, 108, 121, 45, 84, 111, 58, 32, 60, 49, 64, 120, 46, 121, 62, 13, 10>>,
    bcc |->  (* Bcc:\r\n *)
      <<66, 99, 99, 58, 13, 10>>,
    received |->  (* Received: from x by y; Fri, 21 Nov 1997 09:55:06 -0600\r\n *)
      <<82, 101, 99, 101, 105, 118, 101, 100, 58, 32, 102, 114, 111, 109, 32, 120, 32, 98, 121, 32, 121, 59, 32, 70, 114, 105, 44, 32, 50, 49, 32, 78, 111, 118, 32, 49, 57, 57, 55, 32, 48, 57, 58, 53, 53, 58, 48, 54, 32, 45, 48, 54, 48, 48, 13, 10>>,
    recvdomain |->  (* Received: from mail.example.com; 1 Nov 1997 09:55 +0000\r\n *)
      <<82, 101, 99, 101, 105, 118, 101, 100, 58, 32, 102, 114, 111, 109, 32, 109, 97, 105, 108, 46, 101, 120, 97, 109, 112, 108, 101, 46, 99, 111, 109, 59, 32, 49, 32, 78, 111, 118, 32, 49, 57, 57, 55, 32, 48, 57, 58, 53, 53, 32, 43, 48, 48, 48, 48, 13, 10>>,
    recvaddr |->  (* Received: for a@b.c; 1 Nov 1997 09:55 +0000\r\n *)
      <<82, 101, 99, 101, 105, 118, 101, 100, 58, 32, 102, 111, 114, 32, 97, 64, 98, 46, 99, 59, 32, 49, 32, 78, 111, 118, 32, 49, 57, 57, 55, 32, 48, 57, 58, 53, 53, 32, 43, 48, 48, 48, 48, 13, 10>>,
    return |->  (* Return-Path: <>\r\n *)
      <<82, 101, 116, 117, 114, 110, 45, 80, 97, 116, 104, 58, 32, 60, 62, 13, 10>>,
    resentto |->  (* Resent-To: a@b\r\n *)
      <<82, 101, 115, 101, 110, 116, 45, 84, 111, 58, 32, 97, 64, 98, 13, 10>>,
    optional |->  (* X-A: b\r\n *)
      <<88, 45, 65, 58, 32, 98, 13, 10>>,
    message |->  (* Subject: a\r\n\r\nhi *)
      <<83, 117, 98, 106, 101, 99, 116, 58, 32, 97, 13, 10, 13, 10, 104, 105>>,
    tracedsubject |->  (* Received: x; 1 Nov 1997 09:55 +0000\r\nSubject: a\r\n *)
      <<82, 101, 99, 101, 105, 118, 101, 100, 58, 32, 120, 59, 32, 49, 32, 78, 111, 118, 32, 49, 57, 57, 55, 32, 48, 57, 58, 53, 53, 32, 43, 48, 48, 48, 48, 13, 10, 83, 117, 98, 106, 101, 99, 116, 58, 32, 97, 13, 10>>,
    traced |->  (* Received: x; 1 Nov 1997 09:55 +0000\r\nX-A: b\r\n\r\n *)
      <<82, 101, 99, 101, 105, 118, 101, 100, 58, 32, 120, 59, 32, 49, 32, 78, 111, 118, 32, 49, 57, 57, 55, 32, 48, 57, 58, 53, 53, 32, 43, 48, 48, 48, 48, 13, 10, 88, 45, 65, 58, 32, 98, 13, 10, 13, 10>> ]

\* the fragments appended to it
ProdTails ==
  [ a |->  (* a *)
      <<97>>,
    space |->  (*   *)
      <<32>>,
    crlf |->  (* \r\n *)
      <<13, 10>> ]

(***************************************************************************)
(* The state machine.                                                      *)
(***************************************************************************)
NoOp == [f |-> "", t |-> ""]

\* nothing has been handed to the crate yet
Init ==
  /\ input = <<>> /\ fed = <<>> /\ pc = "feed"
  /\ op = NoOp /\ res = Err(NoErr) /\ cursor = <<>> /\ out = <<>>
  /\ email = <<>> /\ ncalls = 0

\* the caller extends the input by one of the fragments
Feed(frags, max) ==
  /\ pc = "feed"
  /\ Len(fed) < max
  /\ \E f \in DOMAIN frags :
       /\ input' = input \o frags[f]
       /\ fed' = Append(fed, f)
  /\ UNCHANGED <<pc, op, res, cursor, out, email, ncalls>>

FeedMsg == Feed(MsgFrags, MaxMsgFrags)

FeedBody == Feed(BodyFrags, MaxBodyFrags)

FeedProd == IF Len(fed) = 0 THEN Feed(ProdSeeds, 1) ELSE Feed(ProdTails, 1 + MaxTail)

\* let mut rem = input; let r = parse!(T, rem);
Parse(T) ==
  /\ pc = "feed"
  /\ res' = Parsable_parse(T, input)
  /\ cursor' = After(res', input)
  /\ op' = [f |-> "parse", t |-> T]
  /\ pc' = "parsed"
  /\ UNCHANGED <<input, fed, out, email, ncalls>>

ParseMessage == Parse("Message")

ParseEmail == Parse("Email")

ParseBody == Parse("Body")

ParseAny == \E T \in Productions : Parse(T)

\* let r: Result<T, ParseError> = TryFrom::try_from(input);
Convert ==
  /\ pc = "feed"
  /\ \E T \in Convertibles :
       /\ res' = TryFrom_try_from(T, input)
       /\ op' = [f |-> "try_from", t |-> T]
  /\ cursor' = input
  /\ pc' = "parsed"
  /\ UNCHANGED <<input, fed, out, email, ncalls>>

\* let mut sink: Vec<u8> = Vec::new(); let n = value.stream(&mut sink);
Stream ==
  /\ pc = "parsed"
  /\ res.ok
  /\ out' = Streamable_stream(op.t, res.val)
  /\ pc' = "streamed"
  /\ UNCHANGED <<input, fed, op, res, cursor, email, ncalls>>

\* messages: Message::parse, Email::parse and the stream of their values
NextMsg == FeedMsg \/ ParseMessage \/ ParseEmail \/ Stream

SpecMsg == Init /\ [][NextMsg]_vars

\* bodies: Body::parse and Body::stream
NextBody == FeedBody \/ ParseBody \/ Stream

SpecBody == Init /\ [][NextBody]_vars

\* every production and every conversion on the same inputs
Next == FeedProd \/ ParseAny \/ Convert \/ Stream

Spec == Init /\ [][Next]_vars

\* count += w.write(b)? with a write that ignores the Err of the sink
Try_ignore(e) == "streaming"

\* count += w.write(b)? and try!(w.write(b)): an Err returns from stream with
\* that error, an Ok goes on to the next write
Try(e) == IF e.fail THEN "failed" ELSE "streaming"

\* Err(e) from the sink's write: nothing is added to the sink
SinkErr == [bytes |-> <<>>, ret |-> 0, fail |-> TRUE]

\* value.stream(&mut sink), one write at a time, on a sink whose write may
\* fail: out holds the writes made on the sink so far; the next write of the
\* stream is made and the sink accepts the buffer or returns an Err
Write ==
  /\ pc \in {"parsed", "streaming"}
  /\ res.ok
  /\ LET ws == Streamable_stream(op.t, res.val) IN
       IF Len(out) = Len(ws)
       THEN /\ pc' = "streamed"
            /\ out' = out
       ELSE \E e \in {ws[Len(out) + 1], SinkErr} :
              /\ out' = Append(out, e)
              /\ pc' = Try(e)
  /\ UNCHANGED <<input, fed, op, res, cursor, email, ncalls>>

\* every production, streamed to a sink that may fail
NextSink == FeedProd \/ ParseAny \/ Write

SpecSink == Init /\ [][NextSink]_vars

\* the arguments of Email::new and of the set calls
EmailArgs ==
  [ words |->  (* a b *)
      <<97, 32, 98>>,
    one |->  (* <1@x.y> *)
      <<60, 49, 64, 120, 46, 121, 62>>,
    two |->  (* <2@x.y> *)
      <<60, 50, 64, 120, 46, 121, 62>>,
    date |->  (* 1 Nov 1997 09:55 +0000 *)
      <<49, 32, 78, 111, 118, 32, 49, 57, 57, 55, 32, 48, 57, 58, 53, 53, 32, 43, 48, 48, 48, 48>> ]

\* <X as TryFrom<&[u8]>>::try_from(a) for each single-valued header X and each
\* argument a
ArgValue ==
  [X \in Singles |-> [a \in DOMAIN EmailArgs |-> TryFrom_try_from(X, EmailArgs[a])]]

\* let email = Email::new(from, date)
New ==
  /\ pc = "feed"
  /\ email = <<>>
  /\ \E from \in DOMAIN EmailArgs, date \in DOMAIN EmailArgs :
       /\ res' = Email_new(EmailArgs[from], EmailArgs[date])
       /\ input' = EmailArgs[from]
       /\ fed' = <<from, date>>
  /\ email' = Opt(res')
  /\ pc' = IF res'.ok THEN "email" ELSE "feed"
  /\ op' = [f |-> "new", t |-> "Email"]
  /\ UNCHANGED <<cursor, out, ncalls>>

\* email.set_sender(a), email.set_reply_to(a), ... email.set_subject(a)
Set ==
  /\ pc = "email"
  /\ ncalls < MaxCalls
  /\ \E X \in Singles, a \in DOMAIN EmailArgs :
       /\ res' = ArgValue[X][a]
       /\ input' = EmailArgs[a]
       /\ fed' = <<a>>
       /\ op' = [f |-> "set", t |-> X]
  /\ email' = IF res'.ok THEN <<Email_set(email[1], op'.t, res'.val)>> ELSE email
  /\ ncalls' = ncalls + 1
  /\ UNCHANGED <<pc, cursor, out>>

\* email.clear_sender(), email.clear_reply_to(), ... email.clear_subject()
Clear ==
  /\ pc = "email"
  /\ ncalls < MaxCalls
  /\ \E X \in Singles :
       /\ email' = <<Email_clear(email[1], X)>>
       /\ op' = [f |-> "clear", t |-> X]
  /\ res' = Ok(<<>>, <<>>)
  /\ ncalls' = ncalls + 1
  /\ UNCHANGED <<input, fed, pc, cursor, out>>

\* an Email made by Email::new and changed by set and clear calls
NextEmail == New \/ Set \/ Clear

SpecEmail == Init /\ [][NextEmail]_vars

(***************************************************************************)
(* The properties.                                                         *)
(***************************************************************************)
\* T::parse has returned for the input
Parsed(T) == pc # "feed" /\ op = [f |-> "parse", t |-> T]

\* the value T::parse returned has been streamed
Streamed(T) == pc = "streamed" /\ op = [f |-> "parse", t |-> T]

\* the input is n header fields of the set hs, the blank line and body text
FieldsBlankText(hs) ==
  /\ Len(fed) >= 2
  /\ fed[Len(fed)] = "text"
  /\ fed[Len(fed) - 1] = "blank"
  /\ \A i \in 1..(Len(fed) - 2) : fed[i] \in hs

\* C1: Message::parse, and Email::parse which wraps it, return Ok or Err for every
\* input and never panic, also when fewer than two bytes follow the header fields
C1_NeverPanics == (Parsed("Message") \/ Parsed("Email")) => res.err.kind # "Panic"

\* C2: the stream of a message parsed from header fields without comments or
\* folding, a blank line and a body is the input, byte for byte: the fields, then
\* CRLF, then the body
C2_RoundTrip ==
  (Streamed("Message") /\ FieldsBlankText({"Subject", "From", "To"}))
    => Written(out) = input

\* C3: for n well-formed ordinary header fields, a blank line and body text,
\* Message::parse succeeds with no trace block, the n fields as their typed
\* variants in input order, the body made of all bytes after the blank line, and
\* an empty remainder
C3_FieldsAndBody ==
  (Parsed("Message") /\ FieldsBlankText({"Subject", "From", "To", "Keywords"}))
    => /\ res.ok
       /\ res.rem = <<>>
       /\ res.val.fields.trace_blocks = <<>>
       /\ Len(res.val.fields.fields) = Len(fed) - 2
       /\ \A i \in 1..(Len(fed) - 2) : res.val.fields.fields[i].tag = fed[i]
       /\ res.val.body = <<MsgFrags.text>>

\* C4: for every value of a successful parse, stream returns exactly the number
\* of bytes it wrote to the sink
C4_StreamCount == pc = "streamed" => Returned(out) = <<Len(Written(out))>>

\* a line of the body holds a byte that is not text
HasBadByte == \E i \in 1..Len(fed) : fed[i] \in {"nul", "high"}

\* C5: Body::parse fails with InvalidBodyChar whenever a line of the body holds a
\* byte that is not 7-bit text, wherever the byte is in the line
C5_InvalidBodyChar ==
  (Parsed("Body") /\ HasBadByte) => (~res.ok /\ res.err.kind = "InvalidBodyChar")

\* the lengths of the lines, CRLF not counted, of the body made of the fragments
RECURSIVE LineLengths(_)

LineLengths(names) ==
  IF Len(names) = 0 THEN <<0>>
  ELSE LET ls == LineLengths(SubSeq(names, 1, Len(names) - 1))
           f == names[Len(names)]
       IN IF f = "crlf" THEN Append(ls, 0)
          ELSE [ls EXCEPT ![Len(ls)] = @ + Len(BodyFrags[f])]

\* the numbers, from 1, of the lines longer than the limit
LongLines == {k \in 1..Len(LineLengths(fed)) : LineLengths(fed)[k] > 998}

\* C6: on a body of text bytes, Body::parse accepts when every line has at most
\* 998 bytes, its CRLF not counted, and fails with LineTooLong(k) when line k,
\* counted from 1, is the first one with 999 bytes or more
C6_LineTooLong ==
  (Parsed("Body") /\ ~HasBadByte)
    => IF LongLines = {} THEN res.ok
       ELSE /\ ~res.ok
            /\ res.err.kind = "LineTooLong"
            /\ res.err.num \in LongLines
            /\ \A k \in LongLines : res.err.num <= k

\* a body of two lines, the first of exactly 998 bytes and the second, of 999, the
\* first too long one
C6_Witness ==
  /\ Parsed("Body")
  /\ fed = <<"full", "crlf", "full", "a">>
  /\ res.err.kind = "LineTooLong"
  /\ res.err.num = 2

\* C7: when Body::parse succeeds, the remainder is empty and the body is the
\* input, no line dropped or altered
C7_BodyIsInput == (Parsed("Body") /\ res.ok) => (res.rem = <<>> /\ res.val = input)

\* C8: when a production returns Ok, the remainder is a suffix of the input and
\* the caller's position is that suffix; when it returns Err, the caller's
\* position has not moved
C8_RemainderIsSuffix ==
  (pc # "feed" /\ op.f = "parse" /\ res.err.kind # "Panic")
    => IF res.ok THEN IsSuffix(res.rem, input) /\ cursor = res.rem
       ELSE cursor = input

\* a production has consumed a part of its input, not all of it
C8_Witness ==
  /\ pc = "parsed" /\ op.f = "parse" /\ res.ok
  /\ Len(res.rem) > 0 /\ Len(res.rem) < Len(input)

\* C9: a character-class production consumes the longest prefix of bytes that
\* pass its test, never succeeds with no byte, returns Eof on the empty input
\* and NotFound when the first byte fails the test
C9_MaximalPrefix ==
  (pc # "feed" /\ op.f = "parse" /\ op.t \in CClasses)
    => IF Len(input) = 0 THEN ~res.ok /\ res.err.kind = "Eof"
       ELSE IF ~Test(op.t, input[1]) THEN ~res.ok /\ res.err.kind = "NotFound"
       ELSE /\ res.ok
            /\ Len(res.val) > 0
            /\ res.val \o res.rem = input
            /\ \A i \in 1..Len(res.val) : Test(op.t, res.val[i])
            /\ (Len(res.rem) = 0 \/ ~Test(op.t, res.rem[1]))

\* a character class has taken several bytes and stopped at one that fails
C9_Witness ==
  /\ pc = "parsed" /\ op.f = "parse" /\ op.t \in CClasses
  /\ res.ok /\ Len(res.val) > 1 /\ Len(res.rem) > 0

\* C10: an InReplyTo, References or Keywords value that parse or the
\* conversion from bytes returned holds at least one element
C10_NonEmptyList == (pc # "feed" /\ op.t \in ListHeaders /\ res.ok) => Len(res.val) >= 1

\* T::try_from has returned for the input
Converted(T) == pc # "feed" /\ op = [f |-> "try_from", t |-> T]

\* C11: the conversion of bytes into a header of one value parses the value and,
\* when the parse leaves a remainder, fails with TrailingInput that carries the
\* name of the target header and the number of bytes consumed
C11_TrailingInput ==
  \A T \in PlainHeaders :
    LET x == Parsable_parse(Headers[T].value, input) IN
    (Converted(T) /\ x.ok /\ Len(x.rem) > 0)
      => /\ ~res.ok
         /\ res.err.kind = "TrailingInput"
         /\ res.err.num = Len(input) - Len(x.rem)
         /\ res.err.name \in {Headers[T].type, Headers[T].err}

\* the bytes hold no comment, no CRLF, no tab and no two spaces in a row
PlainBytes(s) ==
  /\ \A i \in 1..Len(s) : s[i] \notin {9, 10, 13, 40, 41}
  /\ \A i \in 1..(Len(s) - 1) : ~(s[i] = 32 /\ s[i + 1] = 32)

\* the bytes of the input that the parse consumed
Consumed == Take(input, Len(input) - Len(res.rem))

\* C12: the stream of a value parsed by AddrSpec, AngleAddr, NameAddr, MailboxList
\* or MsgId from bytes without comments, folding or runs of whitespace is the
\* consumed bytes, for dot-atom and quoted-string local parts, dot-atom and
\* domain-literal domains, with or without a space before the closing bracket
C12_AddressRoundTrip ==
  \A T \in {"AddrSpec", "AngleAddr", "NameAddr", "MailboxList", "MsgId"} :
    (Streamed(T) /\ PlainBytes(Consumed)) => Written(out) = Consumed

\* s with every run of letters written as one capital followed by small letters
Capitalized(s) ==
  [i \in 1..Len(s) |->
     IF ~is_alpha(s[i]) THEN s[i]
     ELSE IF i > 1 /\ is_alpha(s[i - 1]) THEN LowerByte(s[i])
     ELSE IF s[i] >= 97 THEN s[i] - 32
     ELSE s[i]]

\* C13: the stream of a parsed date-time writes the day name and the month with
\* their canonical capitalization, whatever the case of the input, and the digits
\* of day, year, time and zone as they were written, a day of two digits such as
\* 01 with both digits
C13_DateTimeCanonical ==
  (Streamed("DateTime") /\ PlainBytes(Consumed)) => Written(out) = Capitalized(Consumed)

\* s after its leading folding white space: spaces, tabs, and CRLF before one
RECURSIVE SkipFolding(_)

SkipFolding(s) ==
  IF Len(s) >= 1 /\ is_wsp(s[1]) THEN SkipFolding(Drop(s, 1))
  ELSE IF Len(s) >= 3 /\ Take(s, 2) = CRLF /\ is_wsp(s[3]) THEN SkipFolding(Drop(s, 3))
  ELSE s

\* s with every run of folding white space replaced by one space, quoted pairs
\* kept as they are
RECURSIVE Unfolded(_)

Unfolded(s) ==
  IF Len(s) = 0 THEN <<>>
  ELSE IF s[1] = 92 /\ Len(s) >= 2 THEN <<s[1], s[2]>> \o Unfolded(Drop(s, 2))
  ELSE IF Len(SkipFolding(s)) < Len(s) THEN <<32>> \o Unfolded(SkipFolding(s))
  ELSE <<s[1]>> \o Unfolded(Drop(s, 1))

\* C14: the stream of a parsed Comment or CFWS is the consumed bytes with every
\* run of folding white space replaced by one space and the comment text, quoted
\* pairs and nesting unchanged; parsing that output and streaming again gives the
\* same bytes
C14_CommentNormalized ==
  \A T \in {"Comment", "CFWS"} :
    Streamed(T)
      => /\ Written(out) = Unfolded(Consumed)
         /\ LET again == Parsable_parse(T, Written(out))
            IN /\ again.ok
               /\ again.rem = <<>>
               /\ Written(Streamable_stream(T, again.val)) = Written(out)

\* the input starts with the field name of header type T, in any case
StartsWithName(T) ==
  /\ Len(input) >= Len(Headers[T].lname)
  /\ \A i \in 1..Len(Headers[T].lname) : LowerByte(input[i]) = Headers[T].lname[i]

\* the capitalization the claim names for four of the headers
Canonical ==
  [ From |-> <<70, 114, 111, 109, 58>>,
    OrigDate |-> <<68, 97, 116, 101, 58>>,
    MessageId |-> <<77, 101, 115, 115, 97, 103, 101, 45, 73, 68, 58>>,
    ReplyTo |-> <<82, 101, 112, 108, 121, 45, 84, 111, 58>> ]

\* the stream of a header of type T: its name as the code spells it, then bytes,
\* then CRLF; for the plain headers the bytes are the stream of the value
CanonicalStream(T) ==
  LET o == Written(out)
      n == Len(Headers[T].text)
  IN /\ Len(o) >= n + 2
     /\ Take(o, n) = Headers[T].text
     /\ Lower(Headers[T].text) = Headers[T].lname
     /\ T \in DOMAIN Canonical => Take(o, n) = Canonical[T]
     /\ Drop(o, Len(o) - 2) = CRLF
     /\ T \in PlainHeaders
          => o = Headers[T].text \o Written(Streamable_stream(Headers[T].value, res.val)) \o CRLF

\* a header parse was given the name and went on to the value
NameMatched(T) == ~(~res.ok /\ res.err = E("NotFound", Headers[T].str))

\* C15 as stated: every typed header parse accepts its name in any case, fails
\* with NotFound on every input that does not start with the name, and its
\* stream writes the canonical name, the value and CRLF
C15_HeaderNameAnyInput ==
  \A T \in DOMAIN Headers :
    /\ (Parsed(T) /\ StartsWithName(T)) => NameMatched(T)
    /\ (Parsed(T) /\ ~StartsWithName(T)) => (~res.ok /\ res.err.kind = "NotFound")
    /\ Streamed(T) => CanonicalStream(T)

\* C15 amended: every typed header parse accepts its name in any case, fails
\* with NotFound on every non-empty input that does not start with the name
\* (an empty input gives Eof, or NotFound for Return-Path), and its stream
\* writes the canonical name, the value and CRLF
C15_HeaderName ==
  \A T \in DOMAIN Headers :
    /\ (Parsed(T) /\ StartsWithName(T)) => NameMatched(T)
    /\ (Parsed(T) /\ ~StartsWithName(T) /\ Len(input) > 0)
         => (~res.ok /\ res.err = E("NotFound", Headers[T].str))
    /\ (Parsed(T) /\ Len(input) = 0)
         => (~res.ok /\ res.err.kind = (IF T = "Return" THEN "NotFound" ELSE "Eof"))
    /\ Streamed(T) => CanonicalStream(T)

\* froM: a@b CRLF was parsed as From and streamed with the name From:
C15_Witness ==
  /\ Streamed("From")
  /\ fed = <<"mixedfrom">>
  /\ Take(input, 5) # Headers.From.text
  /\ Take(Written(out), 5) = Canonical.From

\* a header parse was given the name and failed before the closing CRLF was
\* asked for: the value could not be parsed
ValueFailed(T) ==
  /\ Parsed(T)
  /\ StartsWithName(T)
  /\ ~res.ok
  /\ res.err # E("NotFound", "CRLF")

\* C16: when the field name matches and the value cannot be parsed, a typed
\* header parse returns Parse(header name, inner error), also for a Received
\* header whose tokens are not followed by ";"
C16_ValueErrorWrapped ==
  \A T \in DOMAIN Headers :
    ValueFailed(T) => (res.err.kind = "Parse" /\ res.err.name = Headers[T].err)

\* the alternative of each ordered choice that starts with a delimiter, and
\* the delimiter
Delimited ==
  [ Word |-> [alt |-> "QuotedString", open |-> 34],
    LocalPart |-> [alt |-> "QuotedString", open |-> 34],
    Domain |-> [alt |-> "DomainLiteral", open |-> 91],
    CContent |-> [alt |-> "Comment", open |-> 40] ]

\* s starts with the opening delimiter of production A and A fails on it
Unterminated(A, open, s) ==
  /\ Len(s) > 0
  /\ s[1] = open
  /\ ~Parsable_parse(A, s).ok

\* C17: an ordered choice whose delimited alternative has read its opening
\* delimiter and then failed returns the error of that alternative, and a
\* Phrase does not succeed with an unterminated quoted string left as remainder
C17_HardErrorKept ==
  /\ \A T \in DOMAIN Delimited :
       (Parsed(T) /\ Unterminated(Delimited[T].alt, Delimited[T].open, input))
         => (~res.ok /\ res.err = Parsable_parse(Delimited[T].alt, input).err)
  /\ (Parsed("Phrase") /\ res.ok) => ~Unterminated("QuotedString", 34, res.rem)

\* the bytes the sink accepted over all the writes made on it
Accepted(ws) ==
  LET RECURSIVE cat(_)
      cat(e) == IF Len(e) = 0 THEN <<>>
                ELSE (IF e[1].fail THEN <<>> ELSE e[1].bytes) \o cat(Tail(e))
  IN cat(ws)

CountOf(X) == Cardinality({i \in 1..Len(FieldList(email[1])) : FieldList(email[1])[i].tag = X})

\* a set_X that succeeded: X is replaced where it was, or pushed at the end; no
\* other field moves or changes; get_X gives the new value
SetStep ==
  LET old == FieldList(email[1])
      new == FieldList(email'[1])
      X == op'.t
      field == [tag |-> X, v |-> ArgValue[X][fed'[1]].val]
  IN /\ Email_get(email'[1], X) = <<field.v>>
     /\ IF \E i \in 1..Len(old) : old[i].tag = X
        THEN /\ Len(new) = Len(old)
             /\ \A i \in 1..Len(old) : new[i] = IF old[i].tag = X THEN field ELSE old[i]
        ELSE new = Append(old, field)

\* a clear_X: no field of type X is left, the other fields stay in their order
ClearStep ==
  LET old == FieldList(email[1])
      new == FieldList(email'[1])
      other(f) == f.tag # op'.t
  IN /\ Email_get(email'[1], op'.t) = <<>>
     /\ new = SelectSeq(old, other)

\* a call on the email of the caller: a set_X that succeeded, one that failed
\* (the email is as before), or a clear_X; the get of every other header is as before
CallStep ==
  (pc = "email" /\ email' # email)
    => /\ op'.f \in {"set", "clear"}
       /\ op'.f = "set" => (res'.ok /\ SetStep)
       /\ op'.f = "clear" => ClearStep
       /\ \A Y \in Singles \ {op'.t} : Email_get(email'[1], Y) = Email_get(email[1], Y)

\* C19: an Email made by Email::new and changed by set_X and clear_X calls holds
\* at most one field of each single-valued type X and none after Email::new;
\* set_X replaces the X in place or appends it and leaves every other field;
\* get_X is the value of the last set_X that succeeded since the last clear_X
C19_SingleValued ==
  /\ [](pc = "email" => \A X \in Singles : CountOf(X) <= 1)
  /\ []((pc = "email" /\ op.f = "new") => \A X \in Singles : Email_get(email[1], X) = <<>>)
  /\ [][CallStep]_vars

\* Sender was set, then To, then Sender again with another value: the new
\* Sender is where the old one was, before To
C19_Witness ==
  /\ pc = "email"
  /\ op = [f |-> "set", t |-> "Sender"]
  /\ res.ok
  /\ Len(FieldList(email[1])) = 4
  /\ FieldList(email[1])[3] = [tag |-> "Sender", v |-> res.val]
  /\ FieldList(email[1])[4].tag = "To"
  /\ ncalls = 3

\* the productions parsed once per iteration of a repetition loop: the loop
\* goes on when the production succeeds
LoopElements ==
  {"Word", "CContent", "Comment", "QContent", "DText", "VChar", "Mailbox", "Address",
   "MsgId", "Phrase", "ReceivedToken", "Received", "ResentField", "OptionalField",
   "TraceBlock", "Field"}

\* the depth of the comments nested in the comment c, c included
RECURSIVE Nesting(_)

Nesting(c) ==
  LET inner == {i \in 1..Len(c.ccontent) : c.ccontent[i][2].tag = "Comment"}
      deepest == CHOOSE i \in inner :
                   \A j \in inner : Nesting(c.ccontent[j][2].v) <= Nesting(c.ccontent[i][2].v)
  IN IF inner = {} THEN 1 ELSE 1 + Nesting(c.ccontent[deepest][2].v)

\* C20: every production a repetition loop parses once per iteration leaves a
\* strictly shorter remainder when it succeeds, a line of the body that ends
\* with CRLF leaves a strictly shorter input, and each comment nested in a
\* comment was parsed from a strictly shorter input: a comment takes at least
\* two bytes more than the comments inside it
C20_LoopsAdvance ==
  /\ \A T \in LoopElements : (Parsed(T) /\ res.ok) => Len(res.rem) < Len(input)
  /\ stream_until_token(input, CRLF).found
       => Len(stream_until_token(input, CRLF).rest) < Len(input)
  /\ (Parsed("Comment") /\ res.ok)
       => 2 * Nesting(res.val) <= Len(input) - Len(res.rem)

\* a comment with a comment inside was parsed
C20_Witness ==
  /\ Parsed("Comment")
  /\ res.ok
  /\ Nesting(res.val) >= 2
  /\ Len(res.rem) < Len(input)

\* the list types and the type of their elements
ListElement == [MailboxList |-> "Mailbox", AddressList |-> "Address"]

\* items are the elements parsed one after the other from s with one comma
\* between two of them, and rem is what the last of them left
RECURSIVE ElementsThenRest(_, _, _, _)

ElementsThenRest(T, s, items, rem) ==
  LET e == Parsable_parse(T, s) IN
  /\ e.ok
  /\ e.val = items[1]
  /\ IF Len(items) = 1 THEN rem = e.rem
     ELSE /\ Len(e.rem) > 0
          /\ e.rem[1] = 44
          /\ ElementsThenRest(T, Drop(e.rem, 1), Tail(items), rem)

\* no element can be parsed after a comma at the start of s
NoElementAfterComma(T, s) ==
  (Len(s) > 0 /\ s[1] = 44) => ~Parsable_parse(T, Drop(s, 1)).ok

\* C21: MailboxList::parse and AddressList::parse succeed exactly when an
\* element parses at the start of the input; the list holds the elements in
\* input order, the remainder starts right after the last of them, and a
\* comma that no element follows stays in the remainder
C21_ListRemainder ==
  \A L \in DOMAIN ListElement :
    Parsed(L)
      => /\ res.ok <=> Parsable_parse(ListElement[L], input).ok
         /\ res.ok => /\ Len(res.val) >= 1
                      /\ ElementsThenRest(ListElement[L], input, res.val, res.rem)
                      /\ NoElementAfterComma(ListElement[L], res.rem)

\* the two mailboxes of a@b.c, "j p" <d.e@e.f>,, were parsed and ,, is left
C21_Witness ==
  /\ Parsed("MailboxList")
  /\ fed = <<"commas">>
  /\ res.ok
  /\ Len(res.val) = 2
  /\ res.val[2].tag = "NameAddr"
  /\ res.rem = <<44, 44>>

\* the number of spaces and tabs at the end of s
TrailingWsp(s) ==
  LET ks == {k \in 0..Len(s) : \A i \in (Len(s) - k + 1)..Len(s) : is_wsp(s[i])}
  IN CHOOSE k \in ks : \A j \in ks : j <= k

\* the runs of visible characters of s, in order
RECURSIVE VisibleRuns(_)

VisibleRuns(s) ==
  IF Len(s) = 0 THEN <<>>
  ELSE IF ~is_vchar(s[1]) THEN VisibleRuns(Drop(s, 1))
  ELSE LET ends == {n \in 1..Len(s) : \A i \in 1..n : is_vchar(s[i])}
           n == CHOOSE n \in ends : \A m \in ends : m <= n
       IN <<Take(s, n)>> \o VisibleRuns(Drop(s, n))

\* C22: Unstructured::parse takes folding white space only when a visible
\* character follows it; after the last visible character it takes one run of
\* spaces and tabs, whole, and records it as trailing_ws; a CRLF after the
\* value is left to the caller
C22_UnstructuredRemainder ==
  (Parsed("Unstructured") /\ res.ok)
    => LET k == TrailingWsp(Consumed)
           n == Len(Consumed) - k
       IN /\ n >= 1
          /\ is_vchar(input[n])
          /\ res.val.trailing_ws <=> k > 0
          /\ Len(res.rem) > 0 => ~is_wsp(res.rem[1])
          /\ res.val.parts = VisibleRuns(Take(input, n))
          /\ \A i \in 1..n : is_vchar(input[i]) \/ is_wsp(input[i]) \/ input[i] \in {13, 10}

\* This is; unstructured=5, a space, CRLF and a space: the three words and the
\* space are taken, the CRLF and the space after it are left
C22_Witness ==
  /\ Parsed("Unstructured")
  /\ fed = <<"unstruct">>
  /\ res.ok
  /\ Len(res.val.parts) = 3
  /\ res.val.trailing_ws
  /\ res.rem = <<13, 10, 32>>

\* s is a day name, in any case, and a comma, and then more
DayNameComma(s) ==
  /\ Len(s) >= 4
  /\ \E d \in 1..7 : Lower(Take(s, 3)) = Lower(DayText[d])
  /\ s[4] = 44

\* date, time and optional CFWS parsed from s, with the day of the week dow
DateTimeFrom(dow, s) ==
  LET date == Parsable_parse("Date", s)
      time == Parsable_parse("Time", date.rem)
      post == Parsable_parse("CFWS", time.rem)
  IN IF Len(s) > 0 /\ date.ok /\ time.ok
     THEN Ok([day_of_week |-> dow, date |-> date.val, time |-> time.val,
              post_cfws |-> Opt(post)],
             After(post, time.rem))
     ELSE Err(E("NotFound", "DateTime"))

\* C23: DateTime::parse keeps the day of the week exactly when the input is
\* optional folding white space, a day name and a comma before the date; any
\* other input is parsed from its start as date, time and optional CFWS
C23_DayOfWeekRollback ==
  (Parsed("DateTime") /\ Len(input) > 0)
    => LET p == SkipFolding(input) IN
       /\ res.ok => (res.val.day_of_week # <<>> <=> DayNameComma(p))
       /\ DayNameComma(p)
            => /\ res.ok <=> DateTimeFrom(<<>>, Drop(p, 4)).ok
               /\ res.ok => /\ res.val.day_of_week[1].pre_fws # <<>> <=> Len(p) < Len(input)
                            /\ Lower(DayText[res.val.day_of_week[1].day_name]) = Lower(Take(p, 3))
                            /\ res = DateTimeFrom(res.val.day_of_week, Drop(p, 4))
       /\ ~DayNameComma(p) => res = DateTimeFrom(<<>>, input)

\* a folded line, Fri, a comma and a date were parsed with the day of the week kept
C23_Witness ==
  /\ Parsed("DateTime")
  /\ fed = <<"fwsday">>
  /\ res.ok
  /\ res.val.day_of_week # <<>>
  /\ res.val.day_of_week[1].pre_fws # <<>>

\* the field name n is, in any case, the name of a typed header
TypedName(n) == \E T \in DOMAIN Headers : Lower(n \o <<58>>) = Headers[T].lname

\* C24: the optional fields Fields::parse attaches to a trace block are
\* extension headers only: a typed header (Date, From, Subject, ...) after a
\* trace is recorded in Fields.fields as its typed variant
C24_TypedAfterTrace ==
  (Parsed("Fields") /\ res.ok)
    => \A i \in 1..Len(res.val.trace_blocks) :
         res.val.trace_blocks[i].tag = "Opt"
           => \A j \in 1..Len(res.val.trace_blocks[i].v.opt_fields) :
                ~TypedName(res.val.trace_blocks[i].v.opt_fields[j].name)

\* s is ";", a date-time and CRLF
SemiDateCrlf(s) ==
  /\ Len(s) > 0
  /\ s[1] = 59
  /\ LET dt == Parsable_parse("DateTime", Drop(s, 1))
     IN dt.ok /\ Len(dt.rem) >= 2 /\ Take(dt.rem, 2) = CRLF

\* s is received-tokens of the grammar (word, angle-addr, addr-spec or domain,
\* each taken whole), then ";", a date-time and CRLF
RECURSIVE TokensThenDate(_)

TokensThenDate(s) ==
  \/ SemiDateCrlf(s)
  \/ \E T \in {"Word", "AngleAddr", "AddrSpec", "Domain"} :
       LET x == Parsable_parse(T, s) IN x.ok /\ TokensThenDate(x.rem)

\* C25: Received::parse accepts a Received header whose tokens include a
\* dotted domain name or an addr-spec: each is taken as one token, so the ";"
\* and the date-time after the tokens are reached
C25_ReceivedDomainTokens ==
  (Parsed("Received") /\ StartsWithName("Received")
     /\ TokensThenDate(Drop(input, Len(Headers.Received.lname))))
    => res.ok

\* C26: an Email the public API returns holds a Date field and a From field in
\* its field list, so get_date, get_from, set_date and set_from find their
\* field and do not reach unreachable!(); here the Email is the one
\* Email::parse returned
C26_DateAndFromPresent ==
  (Parsed("Email") /\ res.ok)
    => /\ Email_get_date(res.val) # Panic
       /\ Email_get_from(res.val) # Panic

\* C27: CFWS::parse sets trailing_ws exactly when folding white space ends the
\* bytes it consumed: it is false when the input ends right after the last
\* comment, and the stream has no more bytes than were consumed
C27_TrailingWs ==
  (Parsed("CFWS") /\ res.ok)
    => /\ Len(Consumed) > 0
       /\ res.val.trailing_ws <=> is_wsp(Consumed[Len(Consumed)])
       /\ Len(Written(Streamable_stream("CFWS", res.val))) <= Len(Consumed)

\* the sign and the four digits that end the bytes Zone::parse consumed
SignAndDigits == Drop(Consumed, Len(Consumed) - 5)

\* C28: Zone::parse accepts FWS, a sign and four digits, and Zone::stream of the
\* value writes a space, the same sign and the same four digits and returns 6,
\* the zero offset written with a minus sign included
C28_ZoneRoundTrip ==
  (Parsed("Zone") /\ res.ok)
    => /\ Len(Consumed) >= 6
       /\ Written(Streamable_stream("Zone", res.val)) = <<32>> \o SignAndDigits
       /\ Returned(Streamable_stream("Zone", res.val)) = <<6>>

\* the phrases of s when s is phrase *("," phrase) CRLF and more, in order;
\* the empty sequence when it is not
RECURSIVE PhraseList(_)

PhraseList(s) ==
  LET p == Parsable_parse("Phrase", s) IN
  IF ~p.ok THEN <<>>
  ELSE IF Len(p.rem) > 0 /\ p.rem[1] = 44
       THEN LET more == PhraseList(Drop(p.rem, 1))
            IN IF more = <<>> THEN <<>> ELSE <<p.val>> \o more
  ELSE IF Len(p.rem) >= 2 /\ Take(p.rem, 2) = <<13, 10>> THEN <<p.val>>
  ELSE <<>>

\* the bytes of the input after the name of header T
AfterName(T) == Drop(input, Len(Headers[T].lname))

\* C29: Keywords::parse accepts the name followed by one or more phrases with
\* commas between them and yields one Phrase per element, in order; the stream
\* of the value it returned parses back to an equal value
C29_KeywordsList ==
  /\ (Parsed("Keywords") /\ StartsWithName("Keywords") /\ PhraseList(AfterName("Keywords")) # <<>>)
       => (res.ok /\ res.val = PhraseList(AfterName("Keywords")))
  /\ (Parsed("Keywords") /\ res.ok)
       => LET back == Parsable_parse("Keywords", Written(Streamable_stream("Keywords", res.val)))
          IN back.ok /\ back.val = res.val

\* n is, in some capitalization, the name of a header Field::parse tries
FieldName(n) ==
  \E i \in 1..Len(FieldOrder) : Lower(n \o <<58>>) = Headers[FieldOrder[i]].lname

\* C30: Field::parse yields Field::OptionalField only for a line whose name is
\* not the name of a typed header in any capitalization: a typed header whose
\* value is invalid is not accepted as an OptionalField
C30_OptionalOnlyUntyped ==
  (Parsed("Field") /\ res.ok /\ res.val.tag = "OptionalField")
    => ~FieldName(res.val.v.name)

====
